---- MODULE Spec2Model ----
(***************************************************************************)
(* Model of the Session-Resilient Synchronization Engine of               *)
(* tyjones7/AISchedulingAssistant.                                         *)
(*                                                                         *)
(*   Spec    the sync task orchestrator (backend/sync_service.py): the     *)
(*           start_sync callers, one worker thread per task running        *)
(*           _run_sync, and the authentication stores it reads.            *)
(*   SpecDB  the reconciliation layer (update_database of                  *)
(*           backend/scraper/learning_suite_scraper.py) and the user edit  *)
(*           route (update_assignment of backend/main.py) over the         *)
(*           assignments table.                                            *)
(*   SpecStatus   get_status against the worker's writes of a task.        *)
(*   SpecScraper  one scrape_all_courses call with its guarded navigation, *)
(*           session refreshes and batch retry.                            *)
(*   SpecTask     one task's scrapes: SpecScraper with _run_sync's         *)
(*           recovery and aggregation around it.                           *)
(*   SpecMapping  the status given to one extracted item.                  *)
(*   SpecInject   one inject_cookies call.                                 *)
(*   SpecRun      one Learning Suite run course by course: extraction,     *)
(*           per-course save, progress reports, recovery, aggregation.     *)
(***************************************************************************)
EXTENDS Integers, Sequences, FiniteSets, TLC

VARIABLES
    tasks,            \* SyncService._tasks: task id (1..Len) -> SyncTask
    current_task_id,  \* SyncService._current_task_id (0 models None)
    worker,           \* per task: the position and locals of its _run_sync thread
    caller,           \* per start_sync request: its position in start_sync and result
    auth,             \* auth_store module state
    canvas_token,     \* canvas_auth_store token present
    sync_metadata,    \* rows appended to the sync_metadata table, per writing task
    store,            \* the assignments table: sequence of records, id = index
    call,             \* the running update_database call: loop position and summary
    lastOp,           \* what the last store operation was and what it saw
    fields,           \* one SyncTask's attributes, as get_status reads them
    lock,             \* SyncService._task_lock: its holder
    writer,           \* the worker thread's position in its writes of fields
    poll,             \* a get_status call: its position and the dict it builds
    scrape,           \* a scrape_all_courses call: loop position, callbacks made
    nav,              \* a _safe_navigate call: position, flag, loads and refreshes
    session_refresh_count,  \* LearningSuiteScraper._session_refresh_count
    run,              \* _run_sync around its scrape: position, refreshes made, counter
    item,             \* one extracted item: its signals, the path taken, its status
    inject,           \* one inject_cookies call: what the browser did, its result
    job               \* one Learning Suite run course by course: loop, task counters

syncVars == <<tasks, current_task_id, worker, caller, auth, canvas_token, sync_metadata>>
dbVars == <<store, call, lastOp>>
statusVars == <<fields, lock, writer, poll>>
scraperVars == <<scrape, nav, session_refresh_count, run>>
extractVars == <<item, inject>>
jobVars == <<job>>
vars == <<tasks, current_task_id, worker, caller, auth, canvas_token, sync_metadata,
          store, call, lastOp, fields, lock, writer, poll,
          scrape, nav, session_refresh_count, run, item, inject, job>>

(***************************************************************************)
(* Bounds of the model.                                                    *)
(***************************************************************************)
\* The number of start_sync requests made; each creates at most one task.
NumCallers == 2

Callers == 1..NumCallers
TaskIds == 1..NumCallers

(***************************************************************************)
(* SyncStatus and SyncTask (sync_service.py)                               *)
(***************************************************************************)
PENDING == "pending"
CHECKING_SESSION == "checking_session"
WAITING_FOR_MFA == "waiting_for_mfa"
SCRAPING == "scraping"
UPDATING_DB == "updating_db"
COMPLETED == "completed"
FAILED == "failed"

SyncStatus == {PENDING, CHECKING_SESSION, WAITING_FOR_MFA, SCRAPING, UPDATING_DB,
               COMPLETED, FAILED}

Terminal == {COMPLETED, FAILED}

\* SyncTask.__init__; hist is the sequence of status values the task has held.
SyncTask(task_id) ==
    [task_id |-> task_id, status |-> PENDING, error |-> "none",
     completed_at |-> FALSE, hist |-> <<PENDING>>]

\* An assignment of task.status (with the history kept alongside).
SetStatus(task, status) ==
    [task EXCEPT !.status = status,
                 !.hist = IF task.status = status THEN @ ELSE Append(@, status)]

\* _update_task: status and message written under _task_lock.
UpdateTask(ts, task_id, status) ==
    [ts EXCEPT ![task_id] = SetStatus(@, status)]

\* The terminal writes of _run_sync: status, error, message and completed_at
\* under one hold of _task_lock.
FailTask(ts, task_id, error) ==
    [ts EXCEPT ![task_id] = [SetStatus(@, FAILED) EXCEPT !.error = error,
                                                         !.completed_at = TRUE]]

CompleteTask(ts, task_id) ==
    [ts EXCEPT ![task_id] = [SetStatus(@, COMPLETED) EXCEPT !.completed_at = TRUE]]

(***************************************************************************)
(* start_sync                                                              *)
(***************************************************************************)
\* A guard that takes only a task that has not started for a running one.
InProgressPendingOnly(ts, cur) ==
    /\ cur # 0
    /\ cur \in DOMAIN ts
    /\ ts[cur].status = PENDING

\* A guard that looks at the pointer alone, not at the task's status.
InProgressWhilePointerSet(ts, cur) ==
    /\ cur # 0
    /\ cur \in DOMAIN ts

\* The guard of start_sync: a current task exists and is not terminal.
InProgress(ts, cur) ==
    /\ cur # 0
    /\ cur \in DOMAIN ts
    /\ ts[cur].status \notin Terminal

\* A start_sync that cancels the running task and replaces it.
StartSyncCancelling(ts, cur) ==
    LET old == IF InProgress(ts, cur) THEN FailTask(ts, cur, "cancelled") ELSE ts
    IN [ret |-> Len(ts) + 1, error |-> "none",
        tasks |-> Append(old, SyncTask(Len(ts) + 1)), current |-> Len(ts) + 1]

\* The locked section of start_sync, as a function of the service state:
\* what it returns (0 with the error, or the new task id) and what it writes.
StartSyncLocked(ts, cur) ==
    IF InProgress(ts, cur)
    THEN [ret |-> 0, error |-> "Sync already in progress", tasks |-> ts, current |-> cur]
    ELSE [ret |-> Len(ts) + 1, error |-> "none",
          tasks |-> Append(ts, SyncTask(Len(ts) + 1)), current |-> Len(ts) + 1]

NonTerminal(ts) == {t \in DOMAIN ts : ts[t].status \notin Terminal}

\* A request that has not entered start_sync yet.
CallerInit == [pc |-> "idle", ret |-> 0, error |-> "none", race |-> FALSE]

\* A request thread enters start_sync; the requests are numbered in the order
\* in which they enter.  race records that it entered while another request
\* was also inside start_sync, before either took the lock, with no task
\* running.
Invoke(c) ==
    /\ caller[c].pc = "idle"
    /\ \A d \in Callers : d < c => caller[d].pc # "idle"
    /\ LET racing == /\ NonTerminal(tasks) = {}
                     /\ \E d \in Callers \ {c} : caller[d].pc = "calling"
       IN caller' = [d \in Callers |->
                        IF d = c THEN [pc |-> "calling", ret |-> 0, error |-> "none",
                                       race |-> racing]
                        ELSE IF racing /\ caller[d].pc = "calling"
                             THEN [caller[d] EXCEPT !.race = TRUE]
                             ELSE caller[d]]
    /\ UNCHANGED <<tasks, current_task_id, worker, auth, canvas_token, sync_metadata>>
    /\ UNCHANGED <<dbVars, statusVars, scraperVars, extractVars, jobVars>>

\* with self._task_lock: ... (lines 96-107)
StartSync(c) ==
    /\ caller[c].pc = "calling"
    /\ LET r == StartSyncLocked(tasks, current_task_id)
       IN /\ tasks' = r.tasks
          /\ current_task_id' = r.current
          /\ caller' = [caller EXCEPT ![c] = [@ EXCEPT !.pc = IF r.ret = 0 THEN "returned"
                                                                ELSE "launching",
                                                       !.ret = r.ret,
                                                       !.error = r.error]]
    /\ UNCHANGED <<worker, auth, canvas_token, sync_metadata>>
    /\ UNCHANGED <<dbVars, statusVars, scraperVars, extractVars, jobVars>>

\* thread.start(); return task_id, None (lines 110-113)
Launch(c) ==
    /\ caller[c].pc = "launching"
    /\ worker' = [worker EXCEPT ![caller[c].ret] = [@ EXCEPT !.pc = "start"]]
    /\ caller' = [caller EXCEPT ![c] = [@ EXCEPT !.pc = "returned"]]
    /\ UNCHANGED <<tasks, current_task_id, auth, canvas_token, sync_metadata>>
    /\ UNCHANGED <<dbVars, statusVars, scraperVars, extractVars, jobVars>>

(***************************************************************************)
(* auth_store, as the browser-login thread and the logout route change it. *)
(* The Canvas token and a session persisted by an earlier process are      *)
(* inputs fixed at start-up (Init); set_authenticated has no caller, so no *)
(* live scraper is ever stored.                                            *)
(***************************************************************************)
NoAuth == [is_authenticated |-> FALSE, session |-> FALSE, scraper |-> FALSE]

\* set_session_data followed by set_web_storage (run_browser_auth)
BrowserLogin ==
    /\ ~auth.is_authenticated
    /\ auth' = [is_authenticated |-> TRUE, session |-> TRUE, scraper |-> FALSE]
    /\ worker' = [t \in TaskIds |-> IF worker[t].cookies
                                    THEN [worker[t] EXCEPT !.superseded = TRUE]
                                    ELSE worker[t]]
    /\ UNCHANGED <<tasks, current_task_id, caller, canvas_token, sync_metadata>>
    /\ UNCHANGED <<dbVars, statusVars, scraperVars, extractVars, jobVars>>

\* The logout route: clear_authentication, then clear_token.
Logout ==
    /\ auth.is_authenticated \/ canvas_token
    /\ auth' = NoAuth
    /\ canvas_token' = FALSE
    /\ UNCHANGED <<tasks, current_task_id, worker, caller, sync_metadata>>
    /\ UNCHANGED <<dbVars, statusVars, scraperVars, extractVars, jobVars>>

(***************************************************************************)
(* _run_sync, one action per step of the worker thread of task t           *)
(***************************************************************************)
\* The locals of _run_sync before the thread is started.
\* canvas_error records that the except block of the Canvas phase ran,
\* kept_pointer that the finally block found the pointer naming another task,
\* and superseded that a login stored new session data after this run read
\* its snapshot.
WorkerInit ==
    [pc |-> "unlaunched", ls_authenticated |-> FALSE, canvas_token |-> FALSE,
     cookies |-> FALSE, scraper |-> "none", should_close_scraper |-> FALSE,
     error |-> "none", canvas_error |-> FALSE, kept_pointer |-> FALSE,
     superseded |-> FALSE]

At(t, pc) == t \in DOMAIN tasks /\ worker[t].pc = pc

Goto(t, pc) == worker' = [worker EXCEPT ![t] = [@ EXCEPT !.pc = pc]]

\* _save_sync_metadata: one row per call (the store accepts the write)
SaveSyncMetadata(t, status, error) ==
    sync_metadata' = [sync_metadata EXCEPT ![t] = Append(@, [status |-> status, error |-> error])]

\* A start of the run that enters CheckingSession before it looks at the
\* credentials.
RunStartChecksSession(t) ==
    /\ At(t, "start")
    /\ LET ls == auth.is_authenticated
           cv == canvas_token
           checking == UpdateTask(tasks, t, CHECKING_SESSION)
       IN IF ~ls /\ ~cv
          THEN /\ tasks' = FailTask(checking, t, "Not authenticated")
               /\ worker' = [worker EXCEPT ![t] = [@ EXCEPT !.pc = "early_meta",
                                                            !.error = "Not authenticated"]]
          ELSE /\ tasks' = checking
               /\ worker' = [worker EXCEPT ![t] =
                                [@ EXCEPT !.pc = IF ls THEN "ls_begin" ELSE "canvas",
                                          !.ls_authenticated = ls,
                                          !.canvas_token = cv]]
    /\ UNCHANGED <<current_task_id, caller, auth, canvas_token, sync_metadata>>
    /\ UNCHANGED <<dbVars, statusVars, scraperVars, extractVars, jobVars>>

\* lines 181-198: read both stores; with no credentials fail at once.
RunStart(t) ==
    /\ At(t, "start")
    /\ LET ls == auth.is_authenticated
           cv == canvas_token
       IN IF ~ls /\ ~cv
          THEN /\ tasks' = FailTask(tasks, t, "Not authenticated")
               /\ worker' = [worker EXCEPT ![t] = [@ EXCEPT !.pc = "early_meta",
                                                            !.error = "Not authenticated"]]
          ELSE /\ tasks' = tasks
               /\ worker' = [worker EXCEPT ![t] =
                                [@ EXCEPT !.pc = IF ls THEN "ls_begin" ELSE "canvas",
                                          !.ls_authenticated = ls,
                                          !.canvas_token = cv]]
    /\ UNCHANGED <<current_task_id, caller, auth, canvas_token, sync_metadata>>
    /\ UNCHANGED <<dbVars, statusVars, scraperVars, extractVars, jobVars>>

\* An early return that saves no metadata row.
EarlyMetaSkipped(t) ==
    /\ At(t, "early_meta")
    /\ worker' = [worker EXCEPT ![t] = [WorkerInit EXCEPT !.pc = "done"]]
    /\ UNCHANGED <<tasks, current_task_id, caller, auth, canvas_token, sync_metadata>>
    /\ UNCHANGED <<dbVars, statusVars, scraperVars, extractVars, jobVars>>

\* lines 197-198: the metadata row of the early failure, then return
\* (this return is before the try, so the finally block does not run).
EarlyMeta(t) ==
    /\ At(t, "early_meta")
    /\ SaveSyncMetadata(t, "failed", worker[t].error)
    /\ worker' = [worker EXCEPT ![t] = [WorkerInit EXCEPT !.pc = "done"]]
    /\ UNCHANGED <<tasks, current_task_id, caller, auth, canvas_token>>
    /\ UNCHANGED <<dbVars, statusVars, scraperVars, extractVars, jobVars>>

\* lines 203-216 and 232-249: CHECKING_SESSION, read the snapshot, pick the path.
LsBegin(t) ==
    /\ At(t, "ls_begin")
    /\ LET have == auth.session
       IN IF have
          THEN /\ tasks' = UpdateTask(tasks, t, CHECKING_SESSION)
               /\ worker' = [worker EXCEPT ![t] = [@ EXCEPT !.pc = "restore",
                                                            !.cookies = TRUE]]
          ELSE IF auth.scraper
          THEN /\ tasks' = UpdateTask(UpdateTask(tasks, t, CHECKING_SESSION), t, SCRAPING)
               /\ worker' = [worker EXCEPT ![t] = [@ EXCEPT !.pc = "scrape",
                                                            !.scraper = "live",
                                                            !.should_close_scraper = FALSE]]
          ELSE /\ tasks' = UpdateTask(tasks, t, CHECKING_SESSION)
               /\ Goto(t, "probe")
    /\ UNCHANGED <<current_task_id, caller, auth, canvas_token, sync_metadata>>
    /\ UNCHANGED <<dbVars, statusVars, scraperVars, extractVars, jobVars>>

\* lines 218-231: headless browser, inject_cookies. driver_ok = FALSE is
\* _setup_driver raising; restored is what inject_cookies returns.
Restore(t) ==
    /\ At(t, "restore")
    /\ \E driver_ok \in BOOLEAN, restored \in BOOLEAN :
        IF ~driver_ok
        THEN /\ worker' = [worker EXCEPT ![t] = [@ EXCEPT !.pc = "except",
                                                          !.scraper = "headless",
                                                          !.error = "driver"]]
             /\ UNCHANGED <<tasks, auth>>
        ELSE IF restored
        THEN /\ tasks' = UpdateTask(tasks, t, SCRAPING)
             /\ worker' = [worker EXCEPT ![t] = [@ EXCEPT !.pc = "scrape",
                                                          !.scraper = "headless",
                                                          !.should_close_scraper = TRUE]]
             /\ UNCHANGED auth
        ELSE /\ worker' = [worker EXCEPT ![t] = [@ EXCEPT !.pc = "canvas",
                                                          !.scraper = "none",
                                                          !.should_close_scraper = TRUE]]
             /\ auth' = NoAuth
             /\ UNCHANGED tasks
    /\ UNCHANGED <<current_task_id, caller, canvas_token, sync_metadata>>
    /\ UNCHANGED <<dbVars, statusVars, scraperVars, extractVars, jobVars>>

\* lines 245-257: headless browser, check_already_logged_in.
Probe(t) ==
    /\ At(t, "probe")
    /\ \E driver_ok \in BOOLEAN, already_logged_in \in BOOLEAN :
        IF ~driver_ok
        THEN /\ worker' = [worker EXCEPT ![t] = [@ EXCEPT !.pc = "except",
                                                          !.scraper = "headless",
                                                          !.should_close_scraper = TRUE,
                                                          !.error = "driver"]]
             /\ UNCHANGED tasks
        ELSE IF already_logged_in
        THEN /\ tasks' = UpdateTask(tasks, t, SCRAPING)
             /\ worker' = [worker EXCEPT ![t] = [@ EXCEPT !.pc = "scrape",
                                                          !.scraper = "headless",
                                                          !.should_close_scraper = TRUE]]
        ELSE /\ worker' = [worker EXCEPT ![t] = [@ EXCEPT !.pc = "canvas",
                                                          !.scraper = "none",
                                                          !.should_close_scraper = TRUE]]
             /\ UNCHANGED tasks
    /\ UNCHANGED <<current_task_id, caller, auth, canvas_token, sync_metadata>>
    /\ UNCHANGED <<dbVars, statusVars, scraperVars, extractVars, jobVars>>

\* line 272
ScrapeBegin(t) ==
    /\ At(t, "scrape")
    /\ tasks' = UpdateTask(tasks, t, SCRAPING)
    /\ Goto(t, "scraping")
    /\ UNCHANGED <<current_task_id, caller, auth, canvas_token, sync_metadata>>
    /\ UNCHANGED <<dbVars, statusVars, scraperVars, extractVars, jobVars>>

ScrapeOutcomes == {"ok", "session_error", "other_error"}

\* A first scrape that starts the recovery on a session error whether or not
\* the run holds a snapshot.
ScrapingRecoversWithoutSnapshot(t) ==
    /\ At(t, "scraping")
    /\ \E outcome \in ScrapeOutcomes :
        IF outcome = "ok"
        THEN /\ Goto(t, "aggregate")
             /\ UNCHANGED tasks
        ELSE IF outcome = "session_error"
        THEN /\ tasks' = UpdateTask(tasks, t, CHECKING_SESSION)
             /\ Goto(t, "recover")
        ELSE /\ worker' = [worker EXCEPT ![t] = [@ EXCEPT !.pc = "except",
                                                          !.error = outcome]]
             /\ UNCHANGED tasks
    /\ UNCHANGED <<current_task_id, caller, auth, canvas_token, sync_metadata>>
    /\ UNCHANGED <<dbVars, statusVars, scraperVars, extractVars, jobVars>>

\* lines 273-289 and 312-313: scrape_all_courses returns or raises.
\* A raise whose message names the session, with a snapshot at hand, starts
\* the recovery (status back to CHECKING_SESSION); any other raise propagates.
Scraping(t) ==
    /\ At(t, "scraping")
    /\ \E outcome \in ScrapeOutcomes :
        IF outcome = "ok"
        THEN /\ Goto(t, "aggregate")
             /\ UNCHANGED tasks
        ELSE IF outcome = "session_error" /\ worker[t].cookies
        THEN /\ tasks' = UpdateTask(tasks, t, CHECKING_SESSION)
             /\ Goto(t, "recover")
        ELSE /\ worker' = [worker EXCEPT ![t] = [@ EXCEPT !.pc = "except",
                                                          !.error = outcome]]
             /\ UNCHANGED tasks
    /\ UNCHANGED <<current_task_id, caller, auth, canvas_token, sync_metadata>>
    /\ UNCHANGED <<dbVars, statusVars, scraperVars, extractVars, jobVars>>

\* lines 291-311: close, new headless browser, inject the same snapshot.
Recover(t) ==
    /\ At(t, "recover")
    /\ \E driver_ok \in BOOLEAN, restored \in BOOLEAN :
        IF ~driver_ok
        THEN /\ worker' = [worker EXCEPT ![t] = [@ EXCEPT !.pc = "except",
                                                          !.scraper = "headless",
                                                          !.error = "driver"]]
             /\ UNCHANGED <<tasks, auth>>
        ELSE IF restored
        THEN /\ tasks' = UpdateTask(tasks, t, SCRAPING)
             /\ worker' = [worker EXCEPT ![t] = [@ EXCEPT !.pc = "rescraping",
                                                          !.scraper = "headless",
                                                          !.should_close_scraper = TRUE]]
             /\ UNCHANGED auth
        ELSE /\ worker' = [worker EXCEPT ![t] = [@ EXCEPT !.pc = "except",
                                                          !.scraper = "headless",
                                                          !.should_close_scraper = TRUE,
                                                          !.error = "Session expired during sync"]]
             /\ auth' = NoAuth
             /\ UNCHANGED tasks
    /\ UNCHANGED <<current_task_id, caller, canvas_token, sync_metadata>>
    /\ UNCHANGED <<dbVars, statusVars, scraperVars, extractVars, jobVars>>

\* A retried scrape that starts another recovery on a session error.
RescrapingRecoversAgain(t) ==
    /\ At(t, "rescraping")
    /\ \E outcome \in ScrapeOutcomes :
        IF outcome = "ok"
        THEN /\ Goto(t, "aggregate")
             /\ UNCHANGED tasks
        ELSE IF outcome = "session_error"
        THEN /\ tasks' = UpdateTask(tasks, t, CHECKING_SESSION)
             /\ Goto(t, "recover")
        ELSE /\ worker' = [worker EXCEPT ![t] = [@ EXCEPT !.pc = "except",
                                                          !.error = outcome]]
             /\ UNCHANGED tasks
    /\ UNCHANGED <<current_task_id, caller, auth, canvas_token, sync_metadata>>
    /\ UNCHANGED <<dbVars, statusVars, scraperVars, extractVars, jobVars>>

\* lines 305-308: the retried scrape_all_courses; a raise here propagates.
Rescraping(t) ==
    /\ At(t, "rescraping")
    /\ \E outcome \in ScrapeOutcomes :
        IF outcome = "ok"
        THEN Goto(t, "aggregate")
        ELSE worker' = [worker EXCEPT ![t] = [@ EXCEPT !.pc = "except", !.error = outcome]]
    /\ UNCHANGED <<tasks, current_task_id, caller, auth, canvas_token, sync_metadata>>
    /\ UNCHANGED <<dbVars, statusVars, scraperVars, extractVars, jobVars>>

\* lines 315-328: the counters of the task are set under the lock.
Aggregate(t) ==
    /\ At(t, "aggregate")
    /\ Goto(t, "canvas")
    /\ UNCHANGED <<tasks, current_task_id, caller, auth, canvas_token, sync_metadata>>
    /\ UNCHANGED <<dbVars, statusVars, scraperVars, extractVars, jobVars>>

\* lines 331-332: with a Canvas token the status is set to SCRAPING.
CanvasBegin(t) ==
    /\ At(t, "canvas")
    /\ IF worker[t].canvas_token
       THEN /\ tasks' = UpdateTask(tasks, t, SCRAPING)
            /\ Goto(t, "canvas_fetch")
       ELSE /\ Goto(t, "finish")
            /\ UNCHANGED tasks
    /\ UNCHANGED <<current_task_id, caller, auth, canvas_token, sync_metadata>>
    /\ UNCHANGED <<dbVars, statusVars, scraperVars, extractVars, jobVars>>

\* A Canvas phase whose except block re-raises every error.
CanvasFetchPropagating(t) ==
    /\ At(t, "canvas_fetch")
    /\ \E ok \in BOOLEAN :
        IF ok
        THEN Goto(t, "finish")
        ELSE worker' = [worker EXCEPT ![t] = [@ EXCEPT !.pc = "except", !.error = "canvas",
                                                       !.canvas_error = TRUE]]
    /\ UNCHANGED <<tasks, current_task_id, caller, auth, canvas_token, sync_metadata>>
    /\ UNCHANGED <<dbVars, statusVars, scraperVars, extractVars, jobVars>>

\* lines 345-360: fetch and reconcile the Canvas assignments; the except block
\* logs the error and re-raises it only in a Canvas-only run.
CanvasFetch(t) ==
    /\ At(t, "canvas_fetch")
    /\ \E ok \in BOOLEAN :
        IF ok
        THEN Goto(t, "finish")
        ELSE IF worker[t].ls_authenticated
        THEN worker' = [worker EXCEPT ![t] = [@ EXCEPT !.pc = "finish",
                                                       !.canvas_error = TRUE]]
        ELSE worker' = [worker EXCEPT ![t] = [@ EXCEPT !.pc = "except", !.error = "canvas",
                                                       !.canvas_error = TRUE]]
    /\ UNCHANGED <<tasks, current_task_id, caller, auth, canvas_token, sync_metadata>>
    /\ UNCHANGED <<dbVars, statusVars, scraperVars, extractVars, jobVars>>

\* lines 362-370: UPDATING_DB, then the success row.
Finish(t) ==
    /\ At(t, "finish")
    /\ tasks' = UpdateTask(tasks, t, UPDATING_DB)
    /\ SaveSyncMetadata(t, "success", "none")
    /\ Goto(t, "complete")
    /\ UNCHANGED <<current_task_id, caller, auth, canvas_token>>
    /\ UNCHANGED <<dbVars, statusVars, scraperVars, extractVars, jobVars>>

\* lines 372-375
Complete(t) ==
    /\ At(t, "complete")
    /\ tasks' = CompleteTask(tasks, t)
    /\ Goto(t, "finally")
    /\ UNCHANGED <<current_task_id, caller, auth, canvas_token, sync_metadata>>
    /\ UNCHANGED <<dbVars, statusVars, scraperVars, extractVars, jobVars>>

\* An except block that starts the run again instead of failing the task.
ExceptRetrying(t) ==
    /\ At(t, "except")
    /\ worker' = [worker EXCEPT ![t] = [WorkerInit EXCEPT !.pc = "start"]]
    /\ UNCHANGED <<tasks, current_task_id, caller, auth, canvas_token, sync_metadata>>
    /\ UNCHANGED <<dbVars, statusVars, scraperVars, extractVars, jobVars>>

\* lines 379-387: the except block writes FAILED under the lock.
Except(t) ==
    /\ At(t, "except")
    /\ tasks' = FailTask(tasks, t, worker[t].error)
    /\ Goto(t, "save_failed")
    /\ UNCHANGED <<current_task_id, caller, auth, canvas_token, sync_metadata>>
    /\ UNCHANGED <<dbVars, statusVars, scraperVars, extractVars, jobVars>>

\* line 390
SaveFailed(t) ==
    /\ At(t, "save_failed")
    /\ SaveSyncMetadata(t, "failed", worker[t].error)
    /\ Goto(t, "finally")
    /\ UNCHANGED <<tasks, current_task_id, caller, auth, canvas_token>>
    /\ UNCHANGED <<dbVars, statusVars, scraperVars, extractVars, jobVars>>

\* A cleanup that clears the pointer whatever it names.
ReleaseCurrentAlways(cur, task_id) == 0

\* The pointer write of the finally block.
ReleaseCurrent(cur, task_id) == IF cur = task_id THEN 0 ELSE cur

\* lines 392-401: close the browser, clear the pointer if it is this task's.
Finally(t) ==
    /\ At(t, "finally")
    /\ current_task_id' = ReleaseCurrent(current_task_id, t)
    /\ worker' = [worker EXCEPT ![t] = [WorkerInit EXCEPT !.pc = "done",
                                                          !.kept_pointer = current_task_id # t]]
    /\ UNCHANGED <<tasks, caller, auth, canvas_token, sync_metadata>>
    /\ UNCHANGED <<dbVars, statusVars, scraperVars, extractVars, jobVars>>

(***************************************************************************)
(* The assignments table and the observed records                          *)
(***************************************************************************)
\* Bound: the observed records one update_database call is given.
MaxLen == 2

\* "none" models Python's None in the text fields; -1 models None in
\* estimated_minutes.
RawTitles == {"Q&A", "Q&amp;A"}
Courses == {"CS 142"}
DueDates == {"none", "jan15"}
RawDescriptions == {"none", "<p>x</p>"}
ObservedStatus == {"not_started", "in_progress", "submitted", "unavailable"}
PersistedStatus == ObservedStatus \cup {"newly_assigned"}

\* html.unescape on the bounded titles
Unescape(title) == IF title = "Q&amp;A" THEN "Q&A" ELSE title

\* _clean_description on the bounded descriptions: entities decoded, tags removed
CleanDescription(description) == IF description = "<p>x</p>" THEN "x" ELSE description

\* The raw records a scrape pass hands to update_database.
Observed ==
    [title : RawTitles, course_name : Courses, due_date : DueDates,
     description : RawDescriptions, status : ObservedStatus]

\* lines 3130-3137: the observed record as update_database rewrites it.
Sanitize(a) ==
    [a EXCEPT !.title = Unescape(a.title),
              !.description = IF a.description # "none"
                              THEN CleanDescription(a.description) ELSE a.description]

\* A lookup that also requires the stored due date to equal the observed one.
ExistingWithSameDueDate(st, a) ==
    {i \in DOMAIN st : /\ st[i].title = a.title /\ st[i].course_name = a.course_name
                       /\ st[i].due_date = a.due_date}

\* lines 3147-3151: the rows with the observed title and course name.
Existing(st, a) ==
    {i \in DOMAIN st : st[i].title = a.title /\ st[i].course_name = a.course_name}

First(S) == CHOOSE i \in S : \A j \in S : i <= j

\* lines 3156-3162: the change flag of this observation.
Changed(rec, a) ==
    rec.due_date # a.due_date \/ rec.description # a.description

\* A status rule that also lets an observed in_progress overwrite unavailable.
StatusTransitionFromUnavailable(current_status, ls_status) ==
    IF ls_status = "submitted" /\ current_status # "submitted" THEN "submitted"
    ELSE IF ls_status = "not_started" /\ current_status = "unavailable" THEN "not_started"
    ELSE IF ls_status = "in_progress"
            /\ current_status \in {"not_started", "newly_assigned", "unavailable"}
         THEN "in_progress"
    ELSE IF ls_status = "unavailable" /\ current_status = "newly_assigned" THEN "unavailable"
    ELSE current_status

\* A status rule that follows the observation back from in_progress.
StatusTransitionRegressing(current_status, ls_status) ==
    IF ls_status = "submitted" /\ current_status # "submitted" THEN "submitted"
    ELSE IF ls_status = "not_started" /\ current_status \in {"unavailable", "in_progress"}
         THEN "not_started"
    ELSE IF ls_status = "in_progress" /\ current_status \in {"not_started", "newly_assigned"}
         THEN "in_progress"
    ELSE IF ls_status = "unavailable" /\ current_status = "newly_assigned" THEN "unavailable"
    ELSE current_status

\* lines 3175-3189: the status an update writes, given the stored status and
\* the observed one (the stored status when no branch applies).
StatusTransition(current_status, ls_status) ==
    IF ls_status = "submitted" /\ current_status # "submitted" THEN "submitted"
    ELSE IF ls_status = "not_started" /\ current_status = "unavailable" THEN "not_started"
    ELSE IF ls_status = "in_progress" /\ current_status \in {"not_started", "newly_assigned"}
         THEN "in_progress"
    ELSE IF ls_status = "unavailable" /\ current_status = "newly_assigned" THEN "unavailable"
    ELSE current_status

\* An update of an existing record that also resets the notes.
UpdateExistingClearingNotes(rec, a) ==
    LET is_modified == rec.due_date # a.due_date \/ rec.description # a.description
        write_due == is_modified /\ a.due_date # "none"
    IN [rec EXCEPT !.is_modified = is_modified,
                   !.status = StatusTransition(rec.status, a.status),
                   !.due_date = IF write_due THEN a.due_date ELSE @,
                   !.description = IF write_due THEN a.description ELSE @,
                   !.notes = "none"]

\* lines 3164-3198: the row after the update of an existing record.
UpdateExisting(rec, a) ==
    LET is_modified == Changed(rec, a)
        write_due == is_modified /\ a.due_date # "none"
    IN [rec EXCEPT !.is_modified = is_modified,
                   !.status = StatusTransition(rec.status, a.status),
                   !.due_date = IF write_due THEN a.due_date ELSE @,
                   !.description = IF write_due THEN a.description ELSE @]

\* An insert that stores whatever status was observed.
NewRecordKeepingStatus(a) ==
    [title |-> a.title, course_name |-> a.course_name, due_date |-> a.due_date,
     description |-> a.description,
     status |-> a.status,
     is_modified |-> FALSE,
     notes |-> "none", estimated_minutes |-> -1,
     planned_start |-> "none", planned_end |-> "none"]

\* lines 3210-3225: the row inserted for an unmatched observation.
NewRecord(a) ==
    [title |-> a.title, course_name |-> a.course_name, due_date |-> a.due_date,
     description |-> a.description,
     status |-> IF a.status \in {"submitted", "in_progress", "unavailable"}
                THEN a.status ELSE "newly_assigned",
     is_modified |-> FALSE,
     notes |-> "none", estimated_minutes |-> -1,
     planned_start |-> "none", planned_end |-> "none"]

\* One iteration of the loop of update_database on a store that accepts the
\* writes: the store after it and how the iteration is counted.
ReconcileOne(st, raw) ==
    LET a == Sanitize(raw)
        existing == Existing(st, a)
    IN IF existing # {}
       THEN LET id == First(existing)
            IN [store |-> [st EXCEPT ![id] = UpdateExisting(st[id], a)],
                id |-> id,
                class |-> IF Changed(st[id], a) THEN "modified" ELSE "unchanged"]
       ELSE [store |-> Append(st, NewRecord(a)), id |-> Len(st) + 1, class |-> "new"]

\* lines 3114-3246 as a function: update_database on the list assignments with
\* a store that accepts its calls.  The result carries the store after the
\* call, the list as the call leaves it (its records are rewritten in place)
\* and the summary.
RECURSIVE UpdateDatabase(_, _)
UpdateDatabase(st, assignments) ==
    IF assignments = <<>>
    THEN [store |-> st, assignments |-> <<>>, new |-> 0, modified |-> 0, unchanged |-> 0]
    ELSE LET n == Len(assignments)
             before == UpdateDatabase(st, SubSeq(assignments, 1, n - 1))
             r == ReconcileOne(before.store, assignments[n])
         IN [store |-> r.store,
             assignments |-> Append(before.assignments, Sanitize(assignments[n])),
             new |-> before.new + (IF r.class = "new" THEN 1 ELSE 0),
             modified |-> before.modified + (IF r.class = "modified" THEN 1 ELSE 0),
             unchanged |-> before.unchanged + (IF r.class = "unchanged" THEN 1 ELSE 0)]

\* The lists of observed records handed to one update_database call.
Lists == UNION {[1..n -> Observed] : n \in 1..MaxLen}

\* No update_database call is running.  In a running call n is the number of
\* observed records processed and the rest is its summary dictionary.
NoCall == [active |-> FALSE, n |-> 0,
           new |-> 0, modified |-> 0, unchanged |-> 0, errors |-> 0]

NoOp == [op |-> "none", id |-> 0, class |-> "none", pre_status |-> "none",
         pre_is_modified |-> FALSE, ls_status |-> "none"]

\* lines 3114-3120: update_database is called with a list of at least one
\* and at most MaxLen observed records; the summary starts at zero.
StartUpdate ==
    /\ ~call.active
    /\ call' = [NoCall EXCEPT !.active = TRUE]
    /\ lastOp' = [NoOp EXCEPT !.op = "start"]
    /\ UNCHANGED store
    /\ UNCHANGED <<syncVars, statusVars, scraperVars, extractVars, jobVars>>

\* lines 3122-3236: one iteration, on the observed record raw, with a store
\* that accepts its calls.  lastOp keeps the matched row's status and flag
\* as they were before the iteration, and the observed status.
ProcessItem(raw) ==
    /\ call.active
    /\ call.n < MaxLen
    /\ LET r == ReconcileOne(store, raw)
           matched == Existing(store, Sanitize(raw))
       IN /\ store' = r.store
          /\ call' = [call EXCEPT !.n = @ + 1,
                                  !.new = IF r.class = "new" THEN @ + 1 ELSE @,
                                  !.modified = IF r.class = "modified" THEN @ + 1 ELSE @,
                                  !.unchanged = IF r.class = "unchanged" THEN @ + 1 ELSE @]
          /\ lastOp' = [op |-> "reconcile", id |-> r.id, class |-> r.class,
                        pre_status |-> IF matched # {} THEN store[First(matched)].status
                                       ELSE "none",
                        pre_is_modified |-> IF matched # {}
                                            THEN store[First(matched)].is_modified
                                            ELSE FALSE,
                        ls_status |-> raw.status]
    /\ UNCHANGED <<syncVars, statusVars, scraperVars, extractVars, jobVars>>

\* A failing store call that ends the loop with the summary as it is.
ProcessItemErrorAborting ==
    /\ call.active
    /\ call.n < MaxLen
    /\ store' = store
    /\ call' = NoCall
    /\ lastOp' = [NoOp EXCEPT !.op = "reconcile", !.class = "error"]
    /\ UNCHANGED <<syncVars, statusVars, scraperVars, extractVars, jobVars>>

\* lines 3238-3240: a store call of the iteration raises; the except clause
\* counts an error, nothing is written and the loop goes on.
ProcessItemError ==
    /\ call.active
    /\ call.n < MaxLen
    /\ store' = store
    /\ call' = [call EXCEPT !.n = @ + 1, !.errors = @ + 1]
    /\ lastOp' = [NoOp EXCEPT !.op = "reconcile", !.class = "error"]
    /\ UNCHANGED <<syncVars, statusVars, scraperVars, extractVars, jobVars>>

\* lines 3242-3246: the list is exhausted, the summary is returned.
FinishUpdate ==
    /\ call.active
    /\ call.n >= 1
    /\ call' = NoCall
    /\ lastOp' = [NoOp EXCEPT !.op = "finish"]
    /\ UNCHANGED store
    /\ UNCHANGED <<syncVars, statusVars, scraperVars, extractVars, jobVars>>

(***************************************************************************)
(* update_assignment (PATCH /assignments/{id}) of main.py                  *)
(***************************************************************************)
MinMinutes == 1
MaxMinutes == 1440

\* Bound: the fields one request provides.
MaxFields == 1

\* The request bodies: a field that is "absent" (-1 for the minutes) was not
\* provided; "" asks to clear a planning field.
AllUpdates ==
    [status : PersistedStatus \cup {"absent"},
     estimated_minutes : {-1, 0, 30},
     planned_start : {"absent", "", "mon"},
     planned_end : {"absent", "", "tue"},
     notes : {"absent", "", "n"}]

FieldCount(u) ==
    (IF u.status # "absent" THEN 1 ELSE 0)
    + (IF u.estimated_minutes # -1 THEN 1 ELSE 0)
    + (IF u.planned_start # "absent" THEN 1 ELSE 0)
    + (IF u.planned_end # "absent" THEN 1 ELSE 0)
    + (IF u.notes # "absent" THEN 1 ELSE 0)

Updates == {u \in AllUpdates : FieldCount(u) <= MaxFields}

\* lines 430-452: the fields the request writes.
SetsAnyField(u) ==
    \/ u.status # "absent"
    \/ u.estimated_minutes # -1
    \/ u.planned_start # "absent"
    \/ u.planned_end # "absent"
    \/ u.notes # "absent"

ValidMinutes(u) ==
    u.estimated_minutes = -1
    \/ (MinMinutes <= u.estimated_minutes /\ u.estimated_minutes <= MaxMinutes)

Provided(value, old) ==
    IF value = "absent" THEN old ELSE IF value = "" THEN "none" ELSE value

\* lines 457-459: the row after the update.
ApplyUpdate(rec, u) ==
    [rec EXCEPT !.status = IF u.status # "absent" THEN u.status ELSE @,
                !.estimated_minutes = IF u.estimated_minutes # -1
                                      THEN u.estimated_minutes ELSE @,
                !.planned_start = Provided(u.planned_start, @),
                !.planned_end = Provided(u.planned_end, @),
                !.notes = Provided(u.notes, @)]

\* lines 426-464 for the id of a stored row: 422 on minutes out of range and
\* 400 on an empty body, before anything is written; otherwise the row is
\* written with the provided fields.
UpdateAssignment(id, u) ==
    /\ id \in DOMAIN store
    /\ IF ~ValidMinutes(u) \/ ~SetsAnyField(u)
       THEN /\ store' = store
            /\ lastOp' = [NoOp EXCEPT !.op = "edit_rejected"]
       ELSE /\ store' = [store EXCEPT ![id] = ApplyUpdate(@, u)]
            /\ lastOp' = [NoOp EXCEPT !.op = "edit", !.id = id]
    /\ UNCHANGED call
    /\ UNCHANGED <<syncVars, statusVars, scraperVars, extractVars, jobVars>>

\* lines 457-462 for an id that names no row: the update matches nothing, 404.
UpdateUnknownAssignment ==
    /\ store' = store
    /\ lastOp' = [NoOp EXCEPT !.op = "edit_rejected"]
    /\ UNCHANGED call
    /\ UNCHANGED <<syncVars, statusVars, scraperVars, extractVars, jobVars>>

(***************************************************************************)
(* get_status against the worker's writes, attribute by attribute          *)
(* (sync_service.py).  The worker writes the attributes of its task in     *)
(* blocks, each under _task_lock, one assignment at a time; get_status     *)
(* reads them one at a time.  The message, started_at and the counters     *)
(* written once are left out.                                              *)
(***************************************************************************)
\* Bound: the courses of one scrape.
MaxCourses == 3

\* SyncTask.__init__ (lines 41-53)
FieldsInit ==
    [status |-> PENDING, error |-> "none", completed_at |-> FALSE,
     total_courses |-> 0, current_course |-> 0]

\* The assignments of _update_task (lines 169-170).
UpdateBlock(status) == <<[field |-> "status", value |-> status]>>

\* The assignments of progress_callback (lines 263-265).
ProgressBlock(current, total) ==
    <<[field |-> "total_courses", value |-> total],
      [field |-> "current_course", value |-> current]>>

\* The assignments of the completion (lines 373-375).
CompleteBlock ==
    <<[field |-> "status", value |-> COMPLETED],
      [field |-> "completed_at", value |-> TRUE]>>

\* The assignments of the except block (lines 384-387).
FailBlock ==
    <<[field |-> "status", value |-> FAILED],
      [field |-> "error", value |-> "exception"],
      [field |-> "completed_at", value |-> TRUE]>>

\* The locked blocks of a Learning Suite run that scrapes MaxCourses courses,
\* in the order _run_sync enters them (lines 203, 272, 261-269 once per
\* callback, 369, 372).
Program ==
    <<UpdateBlock(CHECKING_SESSION), UpdateBlock(SCRAPING)>>
    \o [k \in 1..(MaxCourses + 1) |-> ProgressBlock(k - 1, MaxCourses)]
    \o <<UpdateBlock(UPDATING_DB), CompleteBlock>>

\* The attributes in the order get_status reads them (lines 130-139).
ReadOrder == <<"status", "error", "completed_at", "total_courses", "current_course">>

WriterInit == [step |-> 1, pending |-> <<>>, ended |-> FALSE]

PollInit == [pc |-> 0, snap |-> FieldsInit, seen |-> {}]

Polling == poll.pc \in 1..(Len(ReadOrder) + 1)

\* with self._task_lock: the worker enters its next block, or, an exception
\* having been raised in the run, the block of the except clause.
AcquireLock ==
    /\ lock = "none"
    /\ ~writer.ended
    /\ \E raised \in BOOLEAN :
          writer' = [step |-> writer.step + 1,
                     pending |-> IF raised THEN FailBlock ELSE Program[writer.step],
                     ended |-> raised \/ writer.step = Len(Program)]
    /\ lock' = "worker"
    /\ UNCHANGED <<fields, poll>>
    /\ UNCHANGED <<syncVars, dbVars, scraperVars, extractVars, jobVars>>

\* One assignment of the block, the lock held.
WriteField ==
    /\ lock = "worker"
    /\ writer.pending # <<>>
    /\ LET w == Head(writer.pending)
       IN /\ fields' = [fields EXCEPT ![w.field] = w.value]
          /\ poll' = IF Polling THEN [poll EXCEPT !.seen = @ \cup {fields'}] ELSE poll
    /\ writer' = [writer EXCEPT !.pending = Tail(@)]
    /\ UNCHANGED lock
    /\ UNCHANGED <<syncVars, dbVars, scraperVars, extractVars, jobVars>>

\* The end of the with block.
ReleaseLock ==
    /\ lock = "worker"
    /\ writer.pending = <<>>
    /\ lock' = "none"
    /\ UNCHANGED <<fields, writer, poll>>
    /\ UNCHANGED <<syncVars, dbVars, scraperVars, extractVars, jobVars>>

\* lines 124-126: get_status looks the task up; it takes no lock.  seen
\* collects the values the task's attributes hold while the call runs.
GetStatus ==
    /\ poll.pc \in {0, Len(ReadOrder) + 2}
    /\ poll' = [pc |-> 1, snap |-> FieldsInit, seen |-> {fields}]
    /\ UNCHANGED <<fields, lock, writer>>
    /\ UNCHANGED <<syncVars, dbVars, scraperVars, extractVars, jobVars>>

\* lines 128-141: one attribute is read into the dict, whoever holds the lock.
ReadField ==
    /\ poll.pc \in 1..Len(ReadOrder)
    /\ poll' = [poll EXCEPT !.pc = @ + 1,
                            !.snap = [@ EXCEPT ![ReadOrder[poll.pc]] = fields[ReadOrder[poll.pc]]]]
    /\ UNCHANGED <<fields, lock, writer>>
    /\ UNCHANGED <<syncVars, dbVars, scraperVars, extractVars, jobVars>>

\* The dict is returned.
ReturnStatus ==
    /\ poll.pc = Len(ReadOrder) + 1
    /\ poll' = [poll EXCEPT !.pc = @ + 1]
    /\ UNCHANGED <<fields, lock, writer>>
    /\ UNCHANGED <<syncVars, dbVars, scraperVars, extractVars, jobVars>>

InitStatus ==
    /\ fields = FieldsInit
    /\ lock = "none"
    /\ writer = WriterInit
    /\ poll = PollInit

(***************************************************************************)
(* The scraper (learning_suite_scraper.py): scrape_all_courses, with the   *)
(* guarded navigation _safe_navigate that opens each course, and the       *)
(* session refresh budget they share.                                      *)
(***************************************************************************)
\* self._max_session_refreshes (line 111)
MaxSessionRefreshes == 3

\* _refresh_session as a function of the refresh count and of whether the
\* re-injection of the cookies works: the count after the call (kept at
\* MaxSessionRefreshes + 1 once it is beyond the budget), the result, and
\* whether the call got past the budget test of lines 390-393 to the browser
\* (the scraper holds the snapshot inject_cookies stored).
RefreshSession(count, works) ==
    [count |-> IF count >= MaxSessionRefreshes + 1 THEN count ELSE count + 1,
     ok |-> count + 1 <= MaxSessionRefreshes /\ works,
     touched |-> count + 1 <= MaxSessionRefreshes]

\* The effect of one _refresh_session call with outcome r on the scraper's
\* counter, and on the number of refreshes the task has made in a browser.
CountRefresh(r) ==
    /\ session_refresh_count' = r.count
    /\ run' = [run EXCEPT !.browser_refreshes = @ + (IF r.touched THEN 1 ELSE 0)]

\* What _safe_navigate finds after driver.get has returned: the target page,
\* a login page (session invalid), an error page, a page off the Learning
\* Suite site, or a page that has lost the course segment of the URL.
Pages == {"ok", "login", "error_page", "off_site", "course_lost"}

NavIdle ==
    [pc |-> "idle", retry_on_session_expire |-> TRUE, page |-> "none",
     loads |-> 0, refreshes |-> 0, refreshed |-> "none", result |-> FALSE]

\* _safe_navigate(url, description) is entered, the flag at its default.
NavStart == [NavIdle EXCEPT !.pc = "load"]

NavReturn(n, result) == [n EXCEPT !.pc = "returned", !.result = result]

\* lines 615-618 and 655-660: driver.get(url) returns, or raises and the
\* call returns False.
NavLoad ==
    /\ nav.pc = "load"
    /\ \E raised \in BOOLEAN :
          nav' = IF raised
                 THEN NavReturn([nav EXCEPT !.loads = @ + 1], FALSE)
                 ELSE [nav EXCEPT !.loads = @ + 1, !.pc = "check"]
    /\ UNCHANGED <<scrape, session_refresh_count, run>>
    /\ UNCHANGED <<syncVars, dbVars, statusVars, extractVars, jobVars>>

\* A check that asks for a refresh on every invalid session, whatever the flag.
NavCheckAlwaysRetrying ==
    /\ nav.pc = "check"
    /\ \E page \in Pages :
          nav' = IF page = "ok" THEN NavReturn([nav EXCEPT !.page = page], TRUE)
                 ELSE IF page \in {"login", "off_site"}
                 THEN [nav EXCEPT !.page = page, !.pc = "refresh"]
                 ELSE NavReturn([nav EXCEPT !.page = page], FALSE)
    /\ UNCHANGED <<scrape, session_refresh_count, run>>
    /\ UNCHANGED <<syncVars, dbVars, statusVars, extractVars, jobVars>>

\* lines 620-654: the checks on the loaded page.  An invalid session or a
\* page off the site asks for a refresh when the flag is set; anything else
\* that is wrong returns False.
NavCheck ==
    /\ nav.pc = "check"
    /\ \E page \in Pages :
          nav' = IF page = "ok" THEN NavReturn([nav EXCEPT !.page = page], TRUE)
                 ELSE IF page \in {"login", "off_site"} /\ nav.retry_on_session_expire
                 THEN [nav EXCEPT !.page = page, !.pc = "refresh"]
                 ELSE NavReturn([nav EXCEPT !.page = page], FALSE)
    /\ UNCHANGED <<scrape, session_refresh_count, run>>
    /\ UNCHANGED <<syncVars, dbVars, statusVars, extractVars, jobVars>>

\* lines 625-627 and 644-645: _refresh_session; on success the navigation is
\* made again by a call with the flag off, whose result is returned as it is.
NavRefresh ==
    /\ nav.pc = "refresh"
    /\ \E works \in BOOLEAN :
          LET r == RefreshSession(session_refresh_count, works)
          IN /\ CountRefresh(r)
             /\ nav' = IF r.ok
                       THEN [nav EXCEPT !.refreshes = @ + 1, !.refreshed = "ok",
                                        !.retry_on_session_expire = FALSE, !.pc = "load"]
                       ELSE NavReturn([nav EXCEPT !.refreshes = @ + 1,
                                                  !.refreshed = "failed"], FALSE)
    /\ UNCHANGED scrape
    /\ UNCHANGED <<syncVars, dbVars, statusVars, extractVars, jobVars>>

\* scrape_all_courses has not been called.  i is the loop index, calls the
\* progress callbacks made so far, failed the indices put on failed_courses.
\* The other fields record, per course 1..total: tries, the calls of the
\* grades view in the initial pass; retried, those in the batch retry;
\* errored, the courses whose last call of the initial pass raised;
\* extracted, the courses whose grades view opened the course and returned;
\* yielded, the courses with an assignment in the returned list.  b is the
\* position of the batch retry in failed.
ScrapeIdle ==
    [pc |-> "idle", i |-> 0, total |-> 0, calls |-> <<>>, failed |-> <<>>,
     attempt |-> "first", tries |-> <<>>, retried |-> <<>>, errored |-> {},
     extracted |-> {}, yielded |-> {}, b |-> 0]

\* progress_callback(i + 1, total_courses, name with suffix) for the course
\* of the current iteration.
Callback(sc, suffix) ==
    [sc EXCEPT !.calls = Append(@, [current |-> sc.i + 1, total |-> sc.total,
                                    course |-> sc.i + 1, suffix |-> suffix])]

\* failed_courses.append((i, course))
Failed(sc) == [sc EXCEPT !.failed = Append(@, sc.i)]

\* The end of an iteration: the next course, or after the last one the batch
\* retry when a course failed, or the return.
Advance(sc) ==
    [sc EXCEPT !.i = @ + 1,
               !.attempt = "first",
               !.pc = IF sc.i + 1 < sc.total THEN "pre_check"
                      ELSE IF sc.failed # <<>> THEN "batch" ELSE "returned"]

\* lines 2924-2940: get_courses finds total courses; with none the call
\* returns at once, otherwise the callback is first called with (0, total).
ScrapeStart ==
    /\ scrape.pc = "idle"
    /\ \E total \in 0..MaxCourses :
          scrape' = IF total = 0
                    THEN [scrape EXCEPT !.pc = "returned"]
                    ELSE [scrape EXCEPT !.pc = "pre_check", !.total = total,
                                        !.tries = [c \in 1..total |-> 0],
                                        !.retried = [c \in 1..total |-> 0],
                                        !.calls = <<[current |-> 0, total |-> total,
                                                     course |-> 0, suffix |-> "Starting..."]>>]
    /\ UNCHANGED <<nav, session_refresh_count, run>>
    /\ UNCHANGED <<syncVars, dbVars, statusVars, extractVars, jobVars>>

\* line 2951: the session check before the course.
PreCheck ==
    /\ scrape.pc = "pre_check"
    /\ \E valid \in BOOLEAN :
          scrape' = [scrape EXCEPT !.pc = IF valid THEN "keepalive" ELSE "pre_refresh"]
    /\ UNCHANGED <<nav, session_refresh_count, run>>
    /\ UNCHANGED <<syncVars, dbVars, statusVars, extractVars, jobVars>>

\* lines 2953-2958: the refresh before the course; when it fails the course
\* is put on failed_courses, reported and skipped.
PreRefresh ==
    /\ scrape.pc = "pre_refresh"
    /\ \E works \in BOOLEAN :
          LET r == RefreshSession(session_refresh_count, works)
          IN /\ CountRefresh(r)
             /\ scrape' = IF r.ok
                          THEN [scrape EXCEPT !.pc = "keepalive"]
                          ELSE Advance(Callback(Failed(scrape), " (session error)"))
    /\ UNCHANGED nav
    /\ UNCHANGED <<syncVars, dbVars, statusVars, extractVars, jobVars>>

\* lines 2962-2963: _keepalive before every second course; it refreshes the
\* session when it finds it invalid and raises nothing.
Keepalive ==
    /\ scrape.pc = "keepalive"
    /\ IF scrape.i > 0 /\ scrape.i % 2 = 0
       THEN \E refreshes \in BOOLEAN, works \in BOOLEAN :
               IF refreshes
               THEN CountRefresh(RefreshSession(session_refresh_count, works))
               ELSE UNCHANGED <<session_refresh_count, run>>
       ELSE UNCHANGED <<session_refresh_count, run>>
    /\ scrape' = [scrape EXCEPT !.pc = "grades"]
    /\ UNCHANGED nav
    /\ UNCHANGED <<syncVars, dbVars, statusVars, extractVars, jobVars>>

\* lines 2969 and 2981, 1252-1280: scrape_grades_assignments_view opens the
\* course with _safe_navigate.
GradesNavigate ==
    /\ scrape.pc = "grades"
    /\ scrape' = [scrape EXCEPT !.pc = "grades_nav", !.tries[scrape.i + 1] = @ + 1]
    /\ nav' = NavStart
    /\ UNCHANGED <<session_refresh_count, run>>
    /\ UNCHANGED <<syncVars, dbVars, statusVars, extractVars, jobVars>>

\* A view whose raise is followed by the session check on the retry as on
\* the first attempt.
GradesParseRetryingAgain ==
    /\ scrape.pc = "grades_nav"
    /\ nav.pc = "returned"
    /\ \E raised \in BOOLEAN :
          LET c == scrape.i + 1
          IN scrape' = IF ~nav.result
                       THEN [scrape EXCEPT !.pc = "exams", !.errored = @ \ {c}]
                       ELSE IF ~raised
                       THEN [scrape EXCEPT !.pc = "exams", !.errored = @ \ {c},
                                           !.extracted = @ \cup {c}]
                       ELSE [scrape EXCEPT !.pc = "post_check", !.errored = @ \cup {c}]
    /\ nav' = NavIdle
    /\ UNCHANGED <<session_refresh_count, run>>
    /\ UNCHANGED <<syncVars, dbVars, statusVars, extractVars, jobVars>>

\* lines 1280-1283 and the rest of the view, the _safe_navigate call being
\* over: when the navigation failed the view returns an empty list; otherwise it parses the page and returns, or
\* raises.  A raise of the first attempt goes to the session check (2973-
\* 2976); a raise of the retry puts the course on failed_courses and the
\* iteration goes on (2985-2987).
GradesParse ==
    /\ scrape.pc = "grades_nav"
    /\ nav.pc = "returned"
    /\ \E raised \in BOOLEAN :
          LET c == scrape.i + 1
          IN scrape' = IF ~nav.result
                       THEN [scrape EXCEPT !.pc = "exams", !.errored = @ \ {c}]
                       ELSE IF ~raised
                       THEN [scrape EXCEPT !.pc = "exams", !.errored = @ \ {c},
                                           !.extracted = @ \cup {c}]
                       ELSE IF scrape.attempt = "first"
                       THEN [scrape EXCEPT !.pc = "post_check", !.errored = @ \cup {c}]
                       ELSE [Failed(scrape) EXCEPT !.pc = "exams", !.errored = @ \cup {c}]
    /\ nav' = NavIdle
    /\ UNCHANGED <<session_refresh_count, run>>
    /\ UNCHANGED <<syncVars, dbVars, statusVars, extractVars, jobVars>>

\* line 2976: the session check after the view raised; with a valid session
\* the iteration goes on.
PostCheck ==
    /\ scrape.pc = "post_check"
    /\ \E valid \in BOOLEAN :
          scrape' = [scrape EXCEPT !.pc = IF valid THEN "exams" ELSE "post_refresh"]
    /\ UNCHANGED <<nav, session_refresh_count, run>>
    /\ UNCHANGED <<syncVars, dbVars, statusVars, extractVars, jobVars>>

\* A failed refresh after the view raised that skips the course unreported.
PostRefreshSilent ==
    /\ scrape.pc = "post_refresh"
    /\ \E works \in BOOLEAN :
          LET r == RefreshSession(session_refresh_count, works)
          IN /\ CountRefresh(r)
             /\ scrape' = IF r.ok
                          THEN [scrape EXCEPT !.pc = "grades", !.attempt = "retry"]
                          ELSE Advance(Failed(scrape))
    /\ UNCHANGED nav
    /\ UNCHANGED <<syncVars, dbVars, statusVars, extractVars, jobVars>>

\* lines 2978-2992: the refresh after the view raised; on success the view is
\* tried once more, otherwise the course is put on failed_courses, reported
\* and skipped.
PostRefresh ==
    /\ scrape.pc = "post_refresh"
    /\ \E works \in BOOLEAN :
          LET r == RefreshSession(session_refresh_count, works)
          IN /\ CountRefresh(r)
             /\ scrape' = IF r.ok
                          THEN [scrape EXCEPT !.pc = "grades", !.attempt = "retry"]
                          ELSE Advance(Callback(Failed(scrape), " (failed)"))
    /\ UNCHANGED nav
    /\ UNCHANGED <<syncVars, dbVars, statusVars, extractVars, jobVars>>

\* lines 2994-3027: the exams tab (its errors are caught), the save of the
\* course's assignments, which may be none, into the returned list, and the
\* progress callback of the course.
ExamsAndSave ==
    /\ scrape.pc = "exams"
    /\ \E some \in BOOLEAN :
          scrape' = Advance(Callback([scrape EXCEPT !.yielded =
                                         IF some THEN @ \cup {scrape.i + 1} ELSE @], ""))
    /\ UNCHANGED <<nav, session_refresh_count, run>>
    /\ UNCHANGED <<syncVars, dbVars, statusVars, extractVars, jobVars>>

\* The batch retry goes to the next entry of failed_courses, or is over.
BatchNext(sc) ==
    IF sc.b < Len(sc.failed)
    THEN [sc EXCEPT !.b = @ + 1, !.pc = "batch_course"]
    ELSE [sc EXCEPT !.pc = "returned"]

\* lines 3029-3037 and 3077-3080: with courses on failed_courses, the batch
\* retry starts if the session is valid or a refresh succeeds; otherwise the
\* failed courses are left as they are.  It makes no callback.
BatchBegin ==
    /\ scrape.pc = "batch"
    /\ \E valid \in BOOLEAN, works \in BOOLEAN :
          IF valid
          THEN /\ scrape' = [scrape EXCEPT !.b = 1, !.pc = "batch_course"]
               /\ UNCHANGED <<session_refresh_count, run>>
          ELSE LET r == RefreshSession(session_refresh_count, works)
               IN /\ CountRefresh(r)
                  /\ scrape' = IF r.ok
                               THEN [scrape EXCEPT !.b = 1, !.pc = "batch_course"]
                               ELSE [scrape EXCEPT !.pc = "returned"]
    /\ UNCHANGED nav
    /\ UNCHANGED <<syncVars, dbVars, statusVars, extractVars, jobVars>>

\* lines 3038-3048: the next failed course is skipped when the session is
\* not valid at its turn; otherwise its grades view is called.
BatchCheck ==
    /\ scrape.pc = "batch_course"
    /\ \E valid \in BOOLEAN :
          IF valid
          THEN /\ scrape' = [scrape EXCEPT !.pc = "batch_nav",
                                           !.retried[scrape.failed[scrape.b] + 1] = @ + 1]
               /\ nav' = NavStart
          ELSE /\ scrape' = BatchNext(scrape)
               /\ UNCHANGED nav
    /\ UNCHANGED <<session_refresh_count, run>>
    /\ UNCHANGED <<syncVars, dbVars, statusVars, extractVars, jobVars>>

\* lines 3047-3076: the retried view returns or raises; when it returns, what
\* it and the exams tab found is added to the returned list.
BatchParse ==
    /\ scrape.pc = "batch_nav"
    /\ nav.pc = "returned"
    /\ \E raised \in BOOLEAN, some \in BOOLEAN :
          LET c == scrape.failed[scrape.b] + 1
          IN scrape' = IF nav.result /\ raised
                       THEN BatchNext(scrape)
                       ELSE BatchNext([scrape EXCEPT
                                !.extracted = IF nav.result THEN @ \cup {c} ELSE @,
                                !.yielded = IF some THEN @ \cup {c} ELSE @])
    /\ nav' = NavIdle
    /\ UNCHANGED <<session_refresh_count, run>>
    /\ UNCHANGED <<syncVars, dbVars, statusVars, extractVars, jobVars>>

(***************************************************************************)
(* _run_sync around its scrape (sync_service.py lines 272-328)             *)
(***************************************************************************)
\* The task is at its first scrape_all_courses call; browser_refreshes counts
\* the _refresh_session calls of the task that reached the browser.
RunIdle == [pc |-> "scraping", browser_refreshes |-> 0, courses_scraped |-> 0]

\* The display names of the discovered courses.
DisplayNames == {"CS 142", "MATH 112"}

\* lines 278-289 and 312-313: scrape_all_courses raises from a statement
\* outside its try blocks (the save and report of lines 3019-3027).  The
\* first call's raise starts the recovery when its message names the session
\* (the run holds the snapshot); any other raise fails the task.
ScrapeRaises ==
    /\ scrape.pc = "exams"
    /\ run.pc \in {"scraping", "rescraping"}
    /\ scrape' = [scrape EXCEPT !.pc = "raised"]
    /\ \E is_session_error \in BOOLEAN :
          run' = [run EXCEPT !.pc = IF is_session_error /\ run.pc = "scraping"
                                    THEN "recover" ELSE "failed"]
    /\ UNCHANGED <<nav, session_refresh_count>>
    /\ UNCHANGED <<syncVars, dbVars, statusVars, extractVars, jobVars>>

\* lines 291-311: the scraper is closed and a new LearningSuiteScraper, whose
\* refresh count starts at 0, is given the snapshot; when that works
\* scrape_all_courses is called on it, otherwise the task fails.
RecoverScraper ==
    /\ run.pc = "recover"
    /\ \E restored \in BOOLEAN :
          IF restored
          THEN /\ run' = [run EXCEPT !.pc = "rescraping"]
               /\ scrape' = ScrapeIdle
               /\ nav' = NavIdle
               /\ session_refresh_count' = 0
          ELSE /\ run' = [run EXCEPT !.pc = "failed"]
               /\ UNCHANGED <<scrape, nav, session_refresh_count>>
    /\ UNCHANGED <<syncVars, dbVars, statusVars, extractVars, jobVars>>

\* lines 324-328 and 362-375: scrape_all_courses has returned its list;
\* courses_scraped is the number of distinct course names in it, and the
\* task goes on to end Completed.
AggregateRun ==
    /\ scrape.pc = "returned"
    /\ run.pc \in {"scraping", "rescraping"}
    /\ \E names \in [1..MaxCourses -> DisplayNames] :
          run' = [run EXCEPT !.pc = "completed",
                             !.courses_scraped =
                                 Cardinality({names[c] : c \in scrape.yielded})]
    /\ UNCHANGED <<scrape, nav, session_refresh_count>>
    /\ UNCHANGED <<syncVars, dbVars, statusVars, extractVars, jobVars>>

InitScraper ==
    /\ scrape = ScrapeIdle
    /\ nav = NavIdle
    /\ session_refresh_count = 0
    /\ run = RunIdle

(***************************************************************************)
(* The extractor's status mapping (learning_suite_scraper.py).  Texts are   *)
(* strings; the operators below are Python's str methods on them.          *)
(***************************************************************************)
UpperCase == "ABCDEFGHIJKLMNOPQRSTUVWXYZ"
LowerCase == "abcdefghijklmnopqrstuvwxyz"

Char(s, i) == SubSeq(s, i, i)

LowerChar(c) ==
    IF \E i \in 1..Len(UpperCase) : Char(UpperCase, i) = c
    THEN Char(LowerCase, CHOOSE i \in 1..Len(UpperCase) : Char(UpperCase, i) = c)
    ELSE c

\* str.lower()
RECURSIVE Lower(_)
Lower(s) == IF Len(s) = 0 THEN s ELSE LowerChar(Char(s, 1)) \o Lower(Tail(s))

RECURSIVE LStrip(_)
LStrip(s) == IF Len(s) > 0 /\ Char(s, 1) = " " THEN LStrip(Tail(s)) ELSE s

RECURSIVE RStrip(_)
RStrip(s) ==
    IF Len(s) > 0 /\ Char(s, Len(s)) = " " THEN RStrip(SubSeq(s, 1, Len(s) - 1)) ELSE s

\* str.strip()
Strip(s) == RStrip(LStrip(s))

\* sub in s
Contains(s, sub) ==
    \E i \in 1..(Len(s) - Len(sub) + 1) : SubSeq(s, i, i + Len(sub) - 1) = sub

\* s.startswith(prefix)
StartsWith(s, prefix) == Len(s) >= Len(prefix) /\ SubSeq(s, 1, Len(prefix)) = prefix

\* lines 57-79: the label table, in the order of the dict.
STATUS_MAPPING ==
    << <<"continue", "in_progress">>, <<"continue exam", "in_progress">>,
       <<"resume", "in_progress">>,
       <<"begin", "not_started">>, <<"begin exam", "not_started">>,
       <<"start", "not_started">>, <<"open", "not_started">>,
       <<"submit", "not_started">>, <<"take", "not_started">>,
       <<"completed", "submitted">>, <<"graded", "submitted">>,
       <<"resubmit", "submitted">>,
       <<"closed", "not_started">>, <<"unavailable", "unavailable">> >>

\* line 83
AMBIGUOUS_BUTTONS == {"view", "view/submit"}

ExactKeys(text) == {k \in DOMAIN STATUS_MAPPING : STATUS_MAPPING[k][1] = text}

PartialKeys(text) == {k \in DOMAIN STATUS_MAPPING : Contains(text, STATUS_MAPPING[k][1])}

FirstKey(keys) == CHOOSE k \in keys : \A j \in keys : k <= j

\* A mapping that looks at the score before it looks for "opens" and
\* "unavailable".
MapStatusScoreFirst(button_text, status_text, has_score) ==
    LET button_lower == Strip(Lower(button_text))
        status_lower == Strip(Lower(status_text))
    IN IF has_score THEN "submitted"
       ELSE IF StartsWith(button_lower, "opens") THEN "unavailable"
       ELSE IF Contains(status_lower, "unavailable") \/ Contains(button_lower, "unavailable")
       THEN "unavailable"
       ELSE IF button_lower \in AMBIGUOUS_BUTTONS THEN "not_started"
       ELSE IF ExactKeys(button_lower) # {}
       THEN STATUS_MAPPING[FirstKey(ExactKeys(button_lower))][2]
       ELSE IF PartialKeys(button_lower) # {}
       THEN STATUS_MAPPING[FirstKey(PartialKeys(button_lower))][2]
       ELSE "not_started"

\* lines 1084-1135: _map_status(button_text, status_text, has_score)
MapStatus(button_text, status_text, has_score) ==
    LET button_lower == Strip(Lower(button_text))
        status_lower == Strip(Lower(status_text))
    IN IF StartsWith(button_lower, "opens") THEN "unavailable"
       ELSE IF Contains(status_lower, "unavailable") \/ Contains(button_lower, "unavailable")
       THEN "unavailable"
       ELSE IF has_score THEN "submitted"
       ELSE IF button_lower \in AMBIGUOUS_BUTTONS THEN "not_started"
       ELSE IF ExactKeys(button_lower) # {}
       THEN STATUS_MAPPING[FirstKey(ExactKeys(button_lower))][2]
       ELSE IF PartialKeys(button_lower) # {}
       THEN STATUS_MAPPING[FirstKey(PartialKeys(button_lower))][2]
       ELSE "not_started"

\* lines 1576-1608: the status _convert_js_assignment gives an item of the
\* page's data, from its button text, its score and its graded flag.
ConvertJsStatus(button, has_score, is_graded) ==
    LET button_text == Lower(button)
    IN IF button_text \in {"graded", "completed"} THEN "submitted"
       ELSE IF button_text = "view"
       THEN IF has_score \/ is_graded THEN "submitted" ELSE "not_started"
       ELSE IF button_text \in {"continue", "resume"} THEN "in_progress"
       ELSE IF button_text = "unavailable" \/ StartsWith(button_text, "opens")
       THEN "unavailable"
       ELSE IF has_score \/ is_graded THEN "submitted"
       ELSE "not_started"

\* lines 1804 and 1893-1897: the status _parse_gradebook_row gives a row.
GradebookRowStatus(button_text, has_score) ==
    IF has_score THEN "submitted"
    ELSE IF button_text # "" THEN MapStatus(button_text, "", has_score)
    ELSE "not_started"

\* The button texts and status texts the mapping is applied to.
ButtonTexts ==
    {"", "View", " view ", "view", "VIEW/SUBMIT", "view/submit", "View Results",
     "Opens Jan 5", "opens", "Reopens", "Unavailable", "Currently unavailable",
     "Completed", "Graded", "Resubmit", "Resubmit file", "Continue",
     "Continue Exam", "Begin", "Submit", "Closed", "Go", "Take Quiz"}

StatusTexts == {"", "Unavailable until Jan 5", "Available"}

ItemIdle ==
    [path |-> "none", button_text |-> "", status_text |-> "", has_score |-> FALSE,
     is_graded |-> FALSE, status |-> "none"]

Extracted(path, button_text, status_text, has_score, is_graded, status) ==
    [path |-> path, button_text |-> button_text, status_text |-> status_text,
     has_score |-> has_score, is_graded |-> is_graded, status |-> status]

\* _map_status applied to any texts and score flag.
CallMapStatus ==
    /\ item = ItemIdle
    /\ \E b \in ButtonTexts, st \in StatusTexts, h \in BOOLEAN :
          item' = Extracted("_map_status", b, st, h, FALSE, MapStatus(b, st, h))
    /\ UNCHANGED inject
    /\ UNCHANGED <<syncVars, dbVars, statusVars, scraperVars, jobVars>>

\* _convert_js_assignment: an item of the page's JavaScript data.
ConvertJsAssignment ==
    /\ item = ItemIdle
    /\ \E b \in ButtonTexts, h \in BOOLEAN, g \in BOOLEAN :
          item' = Extracted("_convert_js_assignment", b, "", h, g, ConvertJsStatus(b, h, g))
    /\ UNCHANGED inject
    /\ UNCHANGED <<syncVars, dbVars, statusVars, scraperVars, jobVars>>

\* _parse_gradebook_row: a row of the gradebook table; the button text is a
\* stripped cell text.
ParseGradebookRow ==
    /\ item = ItemIdle
    /\ \E b \in ButtonTexts, h \in BOOLEAN :
          item' = Extracted("_parse_gradebook_row", Strip(b), "", h, FALSE,
                            GradebookRowStatus(Strip(b), h))
    /\ UNCHANGED inject
    /\ UNCHANGED <<syncVars, dbVars, statusVars, scraperVars, jobVars>>

\* lines 1994 and 2743: _parse_gradebook_item and _parse_assignment_row give
\* the item the status of _map_status(button_text, has_score=has_score).
ParseItemOrRow ==
    /\ item = ItemIdle
    /\ \E b \in ButtonTexts, h \in BOOLEAN,
          path \in {"_parse_gradebook_item", "_parse_assignment_row"} :
          item' = Extracted(path, b, "", h, FALSE, MapStatus(b, "", h))
    /\ UNCHANGED inject
    /\ UNCHANGED <<syncVars, dbVars, statusVars, scraperVars, jobVars>>

(***************************************************************************)
(* inject_cookies and _check_session_valid (learning_suite_scraper.py)     *)
(***************************************************************************)
\* Where a driver.get ends: on Learning Suite, on the CAS login, on a Duo
\* page, on an address with "authenticate", "saml" or "idp" in it; or the
\* call raises.
Addresses == {"learningsuite", "cas", "duo", "authenticate", "saml", "idp"}
Loads == Addresses \cup {"raises"}

\* Reading driver.page_source: a page without or with one of the
\* SESSION_EXPIRED_INDICATORS, or the read raises.
Sources == {"clean", "expired_marker", "raises"}

\* lines 561-599: _check_session_valid on the current address and page.
CheckSessionValid(address, source) ==
    IF address \in {"cas", "duo", "authenticate", "saml", "idp"} THEN FALSE
    ELSE IF source = "expired_marker" THEN FALSE
    ELSE TRUE

\* lines 268-356: the result of inject_cookies, from the first load of the
\* site, the load of the base URL, the load of /student/top and the page
\* source read there.  A cookie that cannot be added is skipped (297-307).
InjectCookies(first, hop1, hop2, source) ==
    IF first = "raises" \/ hop1 = "raises" THEN FALSE
    ELSE IF hop1 = "cas" THEN FALSE
    ELSE IF hop1 \in {"duo", "authenticate", "saml", "idp"} THEN FALSE
    ELSE IF hop2 = "raises" THEN FALSE
    ELSE IF hop2 \in {"cas", "duo"} THEN FALSE
    ELSE CheckSessionValid(hop2, source)

InjectIdle ==
    [pc |-> "idle", first |-> "learningsuite", cookie_error |-> FALSE,
     hop1 |-> "learningsuite", hop2 |-> "learningsuite", source |-> "clean",
     result |-> FALSE]

\* One inject_cookies call.
CallInjectCookies ==
    /\ inject.pc = "idle"
    /\ \E first \in {"learningsuite", "raises"}, cookie_error \in BOOLEAN,
          hop1 \in Loads, hop2 \in Loads, source \in Sources :
          inject' = [pc |-> "returned", first |-> first, cookie_error |-> cookie_error,
                     hop1 |-> hop1, hop2 |-> hop2, source |-> source,
                     result |-> InjectCookies(first, hop1, hop2, source)]
    /\ UNCHANGED item
    /\ UNCHANGED <<syncVars, dbVars, statusVars, scraperVars, jobVars>>

InitExtract ==
    /\ item = ItemIdle
    /\ inject = InjectIdle

(***************************************************************************)
(* One Learning Suite run, course by course (sync_service.py and           *)
(* learning_suite_scraper.py).  _run_sync, holding a stored snapshot and   *)
(* no Canvas token, calls scrape_all_courses(save_per_course=True), which  *)
(* extracts, saves and reports one course after the other and then retries *)
(* the failed ones; the saves go to the assignments table (store).  A      *)
(* course's extraction is one step here: what it yields is an input.       *)
(***************************************************************************)
\* Bound: the courses get_courses finds in one run.
MaxRunCourses == 2

\* The names of the discovered courses, in the order of get_courses.
CourseNames == <<"CS 142", "MATH 112", "PHSCS 121", "REL A 275", "ENGL 251">>

\* course_assignments of one course: one item, with the due date the page shows.
CourseAssignments(c, due_date) ==
    <<[title |-> "Q&A", course_name |-> CourseNames[c], due_date |-> due_date,
       description |-> "none", status |-> "not_started"]>>

\* The locals of the run and of scrape_all_courses and the counters of the
\* task (SyncTask.__init__), before the first scrape.  all_assignments is
\* kept as the set of courses its records belong to.  inserted and
\* classified_modified count what the saves of the whole run did to the store,
\* absorbed the errors the run caught and went on from, observed the courses
\* whose extraction yielded records in an iteration that no raise cut short,
\* db_failed those whose save met an error.
JobIdle ==
    [pc |-> "start", attempt |-> 1, i |-> 0, total |-> 0, b |-> 0,
     course_assignments |-> <<>>, all_assignments |-> {}, failed_courses |-> <<>>,
     per_course_db_results |-> <<>>,
     status |-> SCRAPING, total_courses |-> 0, current_course |-> 0,
     assignments_added |-> 0, assignments_updated |-> 0, courses_scraped |-> 0,
     result |-> [saved |-> FALSE, courses_scraped |-> 0, assignments_added |-> 0,
                 assignments_updated |-> 0],
     inserted |-> 0, classified_modified |-> 0, absorbed |-> 0,
     observed |-> {}, db_failed |-> {}]

\* sync_service.py 261-270: progress_callback(current, total, course_name)
ProgressCallback(j, current, total) ==
    [j EXCEPT !.total_courses = total, !.current_course = current]

\* The end of an iteration of the course loop: the next course, or after the
\* last one the retry of the failed courses when there are any, or the return.
NextCourse(j) ==
    [j EXCEPT !.i = @ + 1,
              !.course_assignments = <<>>,
              !.pc = IF j.i + 1 < j.total THEN "extract"
                     ELSE IF j.failed_courses # <<>> THEN "batch" ELSE "returned"]

RECURSIVE Total(_, _)
\* The sum of db_result.get(key, 0) over the per-course results.
Total(results, key) ==
    IF results = <<>> THEN 0 ELSE results[1][key] + Total(Tail(results), key)

\* sync_service.py 272-277 (and 305-308 after a recovery) with
\* learning_suite_scraper.py 2924-2940: scrape_all_courses is called; with no
\* course it returns at once, otherwise it reports (0, total) and empties
\* _per_course_db_results.
ScrapeAllCourses ==
    /\ job.pc = "start"
    /\ \E total \in 0..MaxRunCourses :
          job' = IF total = 0
                 THEN [job EXCEPT !.pc = "returned"]
                 ELSE ProgressCallback([job EXCEPT !.pc = "extract", !.total = total,
                                                   !.per_course_db_results = <<>>],
                                       0, total)
    /\ UNCHANGED <<store, call, lastOp>>
    /\ UNCHANGED <<syncVars, statusVars, scraperVars, extractVars>>

\* lines 2942-3010: the extraction of course i + 1.  skipped: the session is
\* invalid and cannot be refreshed (2951-2958, 2985-2989), the course is put
\* on failed_courses, reported and the loop continues.  retry_failed: the
\* retried grades view raised (2982-2984), the course is put on
\* failed_courses and the iteration goes on with what the exams tab gives.
ExtractCourse ==
    /\ job.pc = "extract"
    /\ \E outcome \in {"skipped", "retry_failed", "extracted"},
          records \in {<<>>} \cup {CourseAssignments(job.i + 1, d) : d \in DueDates} :
          job' = IF outcome = "skipped"
                 THEN NextCourse(ProgressCallback(
                          [job EXCEPT !.failed_courses = Append(@, job.i + 1),
                                      !.absorbed = @ + 1],
                          job.i + 1, job.total))
                 ELSE [job EXCEPT !.pc = "save",
                                  !.course_assignments = records,
                                  !.failed_courses = IF outcome = "retry_failed"
                                                     THEN Append(@, job.i + 1) ELSE @,
                                  !.absorbed = IF outcome = "retry_failed" THEN @ + 1 ELSE @,
                                  !.observed = IF records # <<>>
                                               THEN @ \cup {job.i + 1} ELSE @]
    /\ UNCHANGED <<store, call, lastOp>>
    /\ UNCHANGED <<syncVars, statusVars, scraperVars, extractVars>>

\* The save of course c's records: update_database on a store that accepts
\* the writes, or one whose call raises inside the per-record try (3238-3240:
\* an error is counted, nothing is written).
SaveRecords(j, st, c, records, store_ok) ==
    LET r == UpdateDatabase(st, records)
    IN IF store_ok
       THEN [store |-> r.store,
             job |-> [j EXCEPT !.per_course_db_results =
                                   Append(@, [new |-> r.new, modified |-> r.modified,
                                              errors |-> 0]),
                               !.all_assignments = @ \cup {c},
                               !.inserted = @ + r.new,
                               !.classified_modified = @ + r.modified]]
       ELSE [store |-> st,
             job |-> [j EXCEPT !.per_course_db_results =
                                   Append(@, [new |-> 0, modified |-> 0, errors |-> 1]),
                               !.all_assignments = @ \cup {c},
                               !.absorbed = @ + 1,
                               !.db_failed = @ \cup {c}]]

\* A loop that keeps the records for one save after the last course.
SaveCourseDeferred ==
    /\ job.pc = "save"
    /\ job' = [job EXCEPT !.pc = "report",
                          !.all_assignments = IF job.course_assignments # <<>>
                                              THEN @ \cup {job.i + 1} ELSE @]
    /\ UNCHANGED <<store, call, lastOp>>
    /\ UNCHANGED <<syncVars, statusVars, scraperVars, extractVars>>

\* lines 3018-3023: with save_per_course and a non-empty course_assignments
\* the course is saved at once and its summary appended.
SaveCourse ==
    /\ job.pc = "save"
    /\ IF job.course_assignments = <<>>
       THEN /\ job' = [job EXCEPT !.pc = "report"]
            /\ UNCHANGED store
       ELSE \E store_ok \in BOOLEAN :
              LET s == SaveRecords(job, store, job.i + 1, job.course_assignments, store_ok)
              IN /\ store' = s.store
                 /\ job' = [s.job EXCEPT !.pc = "report"]
    /\ UNCHANGED <<call, lastOp>>
    /\ UNCHANGED <<syncVars, statusVars, scraperVars, extractVars>>

\* lines 3025-3027: the course is reported, the loop goes on.
ReportCourse ==
    /\ job.pc = "report"
    /\ job' = NextCourse(ProgressCallback(job, job.i + 1, job.total))
    /\ UNCHANGED <<store, call, lastOp>>
    /\ UNCHANGED <<syncVars, statusVars, scraperVars, extractVars>>

\* lines 3029-3080: the retry of the failed courses, one per step.  With a
\* session that is invalid and cannot be refreshed all are skipped (3077-3080);
\* otherwise a course is skipped (3043-3045), fails again (3072-3074), yields
\* nothing, or is saved.  No progress is reported.
BatchRetry ==
    /\ job.pc = "batch"
    /\ \E session_ok \in BOOLEAN, d \in DueDates,
          outcome \in {"skipped", "failed", "empty", "saved", "store_error"} :
          LET c == job.failed_courses[job.b + 1]
              next == [job EXCEPT !.b = @ + 1,
                                  !.pc = IF job.b + 1 >= Len(job.failed_courses)
                                         THEN "returned" ELSE "batch"]
          IN IF job.b = 0 /\ ~session_ok
             THEN /\ job' = [job EXCEPT !.pc = "returned"]
                  /\ UNCHANGED store
             ELSE IF outcome \in {"skipped", "empty"}
             THEN /\ job' = next
                  /\ UNCHANGED store
             ELSE IF outcome = "failed"
             THEN /\ job' = [next EXCEPT !.absorbed = @ + 1]
                  /\ UNCHANGED store
             ELSE LET s == SaveRecords([next EXCEPT !.observed = @ \cup {c}], store, c,
                                       CourseAssignments(c, d), outcome = "saved")
                  IN /\ store' = s.store
                     /\ job' = s.job
    /\ UNCHANGED <<call, lastOp>>
    /\ UNCHANGED <<syncVars, statusVars, scraperVars, extractVars>>

\* sync_service.py 278-289 and 312-313: scrape_all_courses raises from the
\* save or the report of a course.  The first scrape's raise starts the
\* recovery when its message names the session; any other raise, and any
\* raise of the retried scrape, fails the task.
ScrapeError ==
    /\ job.pc = "save"
    /\ \E is_session_error \in BOOLEAN :
          job' = IF is_session_error /\ job.attempt = 1
                 THEN [job EXCEPT !.pc = "recover", !.status = CHECKING_SESSION,
                                  !.observed = @ \ {job.i + 1}]
                 ELSE [job EXCEPT !.pc = "failed", !.status = FAILED,
                                  !.observed = @ \ {job.i + 1}]
    /\ UNCHANGED <<store, call, lastOp>>
    /\ UNCHANGED <<syncVars, statusVars, scraperVars, extractVars>>

\* lines 291-311: the scraper is closed and a new LearningSuiteScraper is
\* given the snapshot; when that works scrape_all_courses is called on the
\* new scraper, otherwise the task fails.
RecoverAndRetry ==
    /\ job.pc = "recover"
    /\ \E restored \in BOOLEAN :
          job' = IF restored
                 THEN [job EXCEPT !.pc = "start", !.attempt = 2, !.status = SCRAPING,
                                  !.i = 0, !.total = 0, !.b = 0,
                                  !.course_assignments = <<>>,
                                  !.all_assignments = {},
                                  !.failed_courses = <<>>,
                                  !.per_course_db_results = <<>>]
                 ELSE [job EXCEPT !.pc = "failed", !.status = FAILED]
    /\ UNCHANGED <<store, call, lastOp>>
    /\ UNCHANGED <<syncVars, statusVars, scraperVars, extractVars>>

\* lines 315-328: the counters of the task, from the summaries of the scraper
\* that returned and the course names of the list it returned.
AggregateResults ==
    /\ job.pc = "returned"
    /\ job' = [job EXCEPT !.pc = "finish",
                          !.courses_scraped = Cardinality(job.all_assignments),
                          !.assignments_added = Total(job.per_course_db_results, "new"),
                          !.assignments_updated =
                              Total(job.per_course_db_results, "modified")]
    /\ UNCHANGED <<store, call, lastOp>>
    /\ UNCHANGED <<syncVars, statusVars, scraperVars, extractVars>>

\* lines 362-375: the summary of the metadata row, then COMPLETED.
CompleteRun ==
    /\ job.pc = "finish"
    /\ job' = [job EXCEPT !.pc = "completed", !.status = COMPLETED,
                          !.result = [saved |-> TRUE,
                                      courses_scraped |-> job.courses_scraped,
                                      assignments_added |-> job.assignments_added,
                                      assignments_updated |-> job.assignments_updated]]
    /\ UNCHANGED <<store, call, lastOp>>
    /\ UNCHANGED <<syncVars, statusVars, scraperVars, extractVars>>

InitJob == job = JobIdle

(***************************************************************************)
(* The orchestrator's specification                                        *)
(***************************************************************************)
\* After construction: no task, no pointer; the persisted session file and
\* Canvas token may or may not be there (_load_session, _load).
InitDB ==
    /\ store = <<>>
    /\ call = NoCall
    /\ lastOp = NoOp

Init ==
    /\ tasks = <<>>
    /\ current_task_id = 0
    /\ worker = [t \in TaskIds |-> WorkerInit]
    /\ caller = [c \in Callers |-> CallerInit]
    /\ auth \in {NoAuth, [is_authenticated |-> TRUE, session |-> TRUE, scraper |-> FALSE]}
    /\ canvas_token \in BOOLEAN
    /\ sync_metadata = [t \in TaskIds |-> <<>>]
    /\ InitDB
    /\ InitStatus
    /\ InitScraper
    /\ InitExtract
    /\ InitJob

Next ==
    \/ \E c \in Callers : Invoke(c)
    \/ \E c \in Callers : StartSync(c)
    \/ \E c \in Callers : Launch(c)
    \/ BrowserLogin
    \/ Logout
    \/ \E t \in TaskIds : RunStart(t)
    \/ \E t \in TaskIds : EarlyMeta(t)
    \/ \E t \in TaskIds : LsBegin(t)
    \/ \E t \in TaskIds : Restore(t)
    \/ \E t \in TaskIds : Probe(t)
    \/ \E t \in TaskIds : ScrapeBegin(t)
    \/ \E t \in TaskIds : Scraping(t)
    \/ \E t \in TaskIds : Recover(t)
    \/ \E t \in TaskIds : Rescraping(t)
    \/ \E t \in TaskIds : Aggregate(t)
    \/ \E t \in TaskIds : CanvasBegin(t)
    \/ \E t \in TaskIds : CanvasFetch(t)
    \/ \E t \in TaskIds : Finish(t)
    \/ \E t \in TaskIds : Complete(t)
    \/ \E t \in TaskIds : Except(t)
    \/ \E t \in TaskIds : SaveFailed(t)
    \/ \E t \in TaskIds : Finally(t)

Spec == Init /\ [][Next]_vars

\* The steps of the _run_sync thread of task t.
RunSync(t) ==
    \/ RunStart(t) \/ EarlyMeta(t) \/ LsBegin(t) \/ Restore(t) \/ Probe(t)
    \/ ScrapeBegin(t) \/ Scraping(t) \/ Recover(t) \/ Rescraping(t) \/ Aggregate(t)
    \/ CanvasBegin(t) \/ CanvasFetch(t) \/ Finish(t) \/ Complete(t)
    \/ Except(t) \/ SaveFailed(t) \/ Finally(t)

\* The threads run: a request that holds a new task id starts its thread, and
\* a started thread takes its next step, every call it makes returning or
\* raising.
Fairness ==
    /\ \A c \in Callers : WF_vars(Launch(c))
    /\ \A t \in TaskIds : WF_vars(RunSync(t))

SpecLive == Init /\ [][Next]_vars /\ Fairness

(***************************************************************************)
(* The reconciliation layer's specification: the worker's update_database  *)
(* calls and the user's edits on the assignments table.                    *)
(***************************************************************************)
NextDB ==
    \/ StartUpdate
    \/ \E raw \in Observed : ProcessItem(raw)
    \/ ProcessItemError
    \/ FinishUpdate
    \/ \E id \in DOMAIN store, u \in Updates : UpdateAssignment(id, u)
    \/ UpdateUnknownAssignment

\* The orchestrator is idle in this specification.
InitForDB ==
    /\ tasks = <<>>
    /\ current_task_id = 0
    /\ worker = [t \in TaskIds |-> WorkerInit]
    /\ caller = [c \in Callers |-> CallerInit]
    /\ auth = NoAuth
    /\ canvas_token = FALSE
    /\ sync_metadata = [t \in TaskIds |-> <<>>]
    /\ InitDB
    /\ InitStatus
    /\ InitScraper
    /\ InitExtract
    /\ InitJob

SpecDB == InitForDB /\ [][NextDB]_vars

(***************************************************************************)
(* The specification of get_status against a running worker, and the       *)
(* specification of one scrape_all_courses call.  The orchestrator and the *)
(* store are idle in both.                                                 *)
(***************************************************************************)
NextStatus ==
    \/ AcquireLock
    \/ WriteField
    \/ ReleaseLock
    \/ GetStatus
    \/ ReadField
    \/ ReturnStatus

SpecStatus == InitForDB /\ [][NextStatus]_vars

NextScraper ==
    \/ ScrapeStart
    \/ PreCheck
    \/ PreRefresh
    \/ Keepalive
    \/ GradesNavigate
    \/ NavLoad
    \/ NavCheck
    \/ NavRefresh
    \/ GradesParse
    \/ PostCheck
    \/ PostRefresh
    \/ ExamsAndSave
    \/ BatchBegin
    \/ BatchCheck
    \/ BatchParse

SpecScraper == InitForDB /\ [][NextScraper]_vars

\* One task from its first scrape to its end: the scraper's steps, and the
\* steps of _run_sync on what scrape_all_courses returns or raises.
NextTask ==
    \/ ScrapeStart
    \/ PreCheck
    \/ PreRefresh
    \/ Keepalive
    \/ GradesNavigate
    \/ NavLoad
    \/ NavCheck
    \/ NavRefresh
    \/ GradesParse
    \/ PostCheck
    \/ PostRefresh
    \/ ExamsAndSave
    \/ BatchBegin
    \/ BatchCheck
    \/ BatchParse
    \/ ScrapeRaises
    \/ RecoverScraper
    \/ AggregateRun

SpecTask == InitForDB /\ [][NextTask]_vars

(***************************************************************************)
(* The specification of the status given to one extracted item, and the    *)
(* specification of one inject_cookies call.                               *)
(***************************************************************************)
NextMapping ==
    \/ CallMapStatus
    \/ ConvertJsAssignment
    \/ ParseGradebookRow
    \/ ParseItemOrRow

SpecMapping == InitForDB /\ [][NextMapping]_vars

NextInject == CallInjectCookies

SpecInject == InitForDB /\ [][NextInject]_vars

\* One Learning Suite run over the assignments table.
NextRun ==
    \/ ScrapeAllCourses
    \/ ExtractCourse
    \/ SaveCourse
    \/ ReportCourse
    \/ BatchRetry
    \/ ScrapeError
    \/ RecoverAndRetry
    \/ AggregateResults
    \/ CompleteRun

SpecRun == InitForDB /\ [][NextRun]_vars



(***************************************************************************)
(* Properties of the orchestrator                                          *)
(***************************************************************************)
HasResult(c) == caller[c].pc \in {"launching", "returned"}

\* Two requests that were both inside start_sync, before either took the
\* lock, while no task was running, and that have both got their result.
RacedPair(c, d) ==
    /\ c # d
    /\ caller[c].race /\ caller[d].race
    /\ HasResult(c) /\ HasResult(d)

Min(a, b) == IF a < b THEN a ELSE b

AtMostOneNonTerminal == Cardinality(NonTerminal(tasks)) <= 1

\* C1 (as stated): at most one task is non-terminal at any time, and of two
\* start_sync calls that race while no task is running exactly one returns a
\* task id and the other returns the "Sync already in progress" error.
C1_ExactlyOneOfRacingCalls ==
    /\ AtMostOneNonTerminal
    /\ \A c, d \in Callers :
         RacedPair(c, d) =>
            \/ caller[c].ret # 0 /\ caller[d].ret = 0
            \/ caller[c].ret = 0 /\ caller[d].ret # 0

\* C1 (amended): at most one task is non-terminal at any time, and two racing
\* start_sync calls both return a task id only if the task of the one that
\* took the lock first was already Completed or Failed when the other took
\* the lock; while that task is non-terminal the other call gets the error.
C1_SingleFlight ==
    /\ AtMostOneNonTerminal
    /\ \A c, d \in Callers :
         (RacedPair(c, d) /\ caller[c].ret # 0 /\ caller[d].ret # 0) =>
            tasks[Min(caller[c].ret, caller[d].ret)].status \in Terminal

\* C1 witness: two racing calls, one got the task id, the other the error,
\* and the task the first created is still running.
C1_Witness ==
    \E c, d \in Callers :
        /\ RacedPair(c, d)
        /\ caller[c].ret # 0
        /\ caller[d].ret = 0 /\ caller[d].error = "Sync already in progress"
        /\ NonTerminal(tasks) = {caller[c].ret}

Rank(status) ==
    CASE status = PENDING -> 1
      [] status = CHECKING_SESSION -> 2
      [] status = WAITING_FOR_MFA -> 3
      [] status = SCRAPING -> 4
      [] status = UPDATING_DB -> 5
      [] status = COMPLETED -> 6
      [] status = FAILED -> 7

Recoveries(h) ==
    {i \in 1..(Len(h) - 1) : h[i] = SCRAPING /\ h[i + 1] = CHECKING_SESSION}

C10_RejectedCallChangesNothing ==
    [][\A c \in Callers :
          ( /\ caller[c].pc = "calling"
            /\ caller'[c].pc # "calling"
            /\ current_task_id # 0
            /\ tasks[current_task_id].status \notin Terminal )
          => /\ caller'[c].pc = "returned"
             /\ caller'[c].ret = 0
             /\ caller'[c].error = "Sync already in progress"
             /\ tasks' = tasks
             /\ current_task_id' = current_task_id
             /\ worker' = worker]_vars

\* C10 witness: a call was rejected and the task that blocked it is still
\* the current one, still running.
C10_Witness ==
    \E c \in Callers :
        /\ caller[c].pc = "returned"
        /\ caller[c].ret = 0
        /\ caller[c].error = "Sync already in progress"
        /\ current_task_id # 0
        /\ tasks[current_task_id].status \in {CHECKING_SESSION, SCRAPING, UPDATING_DB}

(***************************************************************************)
(* Properties of the reconciliation layer (under SpecDB)                   *)
(***************************************************************************)
\* The last step was an update_database iteration on a row that existed.
ReconciledExisting ==
    lastOp.op = "reconcile" /\ lastOp.class \in {"modified", "unchanged"}

\* The step is an iteration of update_database's loop.
ReconcileStep == call'.n = call.n + 1

\* C2: once a persisted record has is_modified true, no update_database
\* iteration changes its status, whatever status is observed.
C2_ModifiedStatusKept ==
    (ReconciledExisting /\ lastOp.pre_is_modified)
        => store[lastOp.id].status = lastOp.pre_status

\* C3: no update_database iteration changes the is_modified flag of an
\* existing record from true to false.
C3_ModifiedFlagKept ==
    (ReconciledExisting /\ lastOp.pre_is_modified)
        => store[lastOp.id].is_modified

\* C4: after an update_assignment request that set a user-authored field of a
\* record, that record's is_modified flag is true.
C4_EditSetsModified ==
    lastOp.op = "edit" => store[lastOp.id].is_modified

\* C5: an update_database iteration leaves notes, estimated_minutes,
\* planned_start and planned_end of every existing record as they were,
\* whether the record's is_modified flag is true or false.
C5_UserFieldsKept ==
    [][ReconcileStep =>
          \A i \in DOMAIN store :
              /\ store'[i].notes = store[i].notes
              /\ store'[i].estimated_minutes = store[i].estimated_minutes
              /\ store'[i].planned_start = store[i].planned_start
              /\ store'[i].planned_end = store[i].planned_end]_vars

\* C5 witness: an iteration has just updated an existing record whose notes,
\* estimate and planned start the user had set, and changed its status.
C5_Witness ==
    /\ ReconciledExisting
    /\ store[lastOp.id].notes = "n"
    /\ store[lastOp.id].estimated_minutes = 30
    /\ store[lastOp.id].planned_start = "mon"
    /\ store[lastOp.id].status # lastOp.pre_status

\* The status overwrite table of the specification.
TableStatus(current, observed) ==
    CASE observed = "submitted" /\ current # "submitted" -> "submitted"
      [] observed = "not_started" /\ current = "unavailable" -> "not_started"
      [] observed = "in_progress" /\ current \in {"not_started", "newly_assigned"}
            -> "in_progress"
      [] observed = "unavailable" /\ current = "newly_assigned" -> "unavailable"
      [] OTHER -> current

C7_NoRegression ==
    [][ReconcileStep =>
          \A i \in DOMAIN store :
              /\ store[i].status = "submitted" => store'[i].status = "submitted"
              /\ store[i].status = "in_progress"
                    => store'[i].status \in {"in_progress", "submitted"}]_vars

\* C7 witness: an in_progress record was observed not_started and is still
\* in_progress.
C7_Witness ==
    /\ ReconciledExisting
    /\ lastOp.pre_status = "in_progress"
    /\ lastOp.ls_status = "not_started"
    /\ store[lastOp.id].status = "in_progress"

\* C8: update_database is idempotent: from the current store, for every
\* observed list, a second call on the same list right after the first
\* counts no new and no modified record.
C8_Idempotent ==
    \A assignments \in Lists :
        LET first == UpdateDatabase(store, assignments)
            second == UpdateDatabase(first.store, first.assignments)
        IN second.new = 0 /\ second.modified = 0

(***************************************************************************)
(* Properties of the orchestrator: the end of a run                        *)
(***************************************************************************)
\* The step in which request c runs the locked section of start_sync.
TakesLock(c) == caller[c].pc = "calling" /\ caller'[c].pc # "calling"

\* A run has ended: the task the pointer was last set to is terminal (the
\* newest task, since start_sync sets the pointer to each task it creates).
RunEnded == tasks # <<>> /\ tasks[Len(tasks)].status \in Terminal

\* C11: once a run has ended, whatever its outcome (Completed, Failed for
\* want of credentials, Failed by an exception), the next start_sync call is
\* accepted: it returns a new task id, the new task is Pending and it is the
\* current task.
C11_GuardReleased ==
    [][\A c \in Callers :
          (TakesLock(c) /\ RunEnded)
          => /\ caller'[c].ret = Len(tasks) + 1
             /\ caller'[c].error = "none"
             /\ Len(tasks') = Len(tasks) + 1
             /\ tasks'[Len(tasks) + 1].status = PENDING
             /\ current_task_id' = Len(tasks) + 1]_vars

\* C11 witness: the first run failed for want of credentials, its thread has
\* returned without passing the finally block, and the next call has been
\* given a new task.
C11_Witness ==
    /\ Len(tasks) = 2
    /\ tasks[1].status = FAILED
    /\ tasks[1].error = "Not authenticated"
    /\ worker[1].pc = "done"
    /\ \E c \in Callers : caller[c].ret = 2

\* C12: every task start_sync creates eventually is Completed or Failed (the
\* threads being scheduled and their calls returning or raising), and the
\* status of a terminal task never changes again.
C12_EveryTaskEnds ==
    /\ \A t \in TaskIds :
          [](t \in DOMAIN tasks => <>(t \in DOMAIN tasks /\ tasks[t].status \in Terminal))
    /\ [][\A t \in DOMAIN tasks :
              tasks[t].status \in Terminal => tasks'[t].status = tasks[t].status]_vars

\* C12 witness: a task has been through a failed scrape, ended Failed, and
\* its thread has finished.
C12_Witness ==
    \E t \in DOMAIN tasks :
        /\ tasks[t].status = FAILED
        /\ tasks[t].error = "other_error"
        /\ worker[t].pc = "done"

\* C13: a run that starts while Learning Suite is not authenticated and no
\* Canvas token is set fails at once: the task goes from Pending straight to
\* Failed with the 'Not authenticated' error, no browser is created, and the
\* task never enters CheckingSession or Scraping afterwards.
C13_NoCredentialsFailsAtOnce ==
    /\ [][\A t \in DOMAIN tasks :
              ( /\ worker[t].pc = "start"
                /\ worker'[t].pc # "start"
                /\ ~auth.is_authenticated
                /\ ~canvas_token )
              => /\ tasks'[t].status = FAILED
                 /\ tasks'[t].error = "Not authenticated"
                 /\ tasks'[t].hist = <<PENDING, FAILED>>
                 /\ worker'[t].scraper = "none"
                 /\ worker'[t].pc = "early_meta"]_vars
    /\ [](\A t \in DOMAIN tasks :
              tasks[t].error = "Not authenticated"
              => /\ tasks[t].hist = <<PENDING, FAILED>>
                 /\ worker[t].scraper = "none"
                 /\ worker[t].pc \in {"early_meta", "done"})

\* C13 witness: a task failed for want of credentials, having held no status
\* but Pending and Failed, and its thread has returned.
C13_Witness ==
    \E t \in DOMAIN tasks :
        /\ tasks[t].hist = <<PENDING, FAILED>>
        /\ tasks[t].error = "Not authenticated"
        /\ worker[t].pc = "done"
        /\ ~auth.is_authenticated /\ ~canvas_token

\* The run of task t had Learning Suite credentials and is past session
\* acquisition with no scraper: the snapshot restore or the already-logged-in
\* probe returned false (lines 226-227, 255-256) and no other path gave one.
AcquisitionFailed(t) ==
    /\ worker[t].ls_authenticated
    /\ worker[t].scraper = "none"
    /\ worker[t].pc \in {"canvas", "canvas_fetch", "finish", "complete", "finally"}

\* C14: a run whose session-acquisition paths all failed never reaches
\* Completed: its task ends Failed with an authentication error.
C14_NoSessionEndsFailed ==
    \A t \in DOMAIN tasks :
        AcquisitionFailed(t)
        => /\ tasks[t].status # COMPLETED
           /\ worker[t].pc = "finally"
                 => /\ tasks[t].status = FAILED
                    /\ tasks[t].error \in {"Not authenticated", "Session expired during sync"}

\* C15: when the snapshot restore returns false (inject_cookies neither
\* raises nor restores the session), the run goes on to another
\* session-acquisition path: the live session or the already-logged-in probe
\* of a fresh browser.
C15_RestoreFallsThrough ==
    [][\A t \in DOMAIN tasks :
          ( /\ worker[t].pc = "restore"
            /\ worker'[t].pc \notin {"restore", "scrape", "except"} )
          => \/ worker'[t].pc = "probe"
             \/ worker'[t].scraper = "live"]_vars

\* The recovery budget of one step of the run of task t: the recovery starts
\* only from the first extraction, the retry only from the recovery, a failed
\* recovery and a failed retry go to the except block, and the except block
\* ends the task Failed.
RecoveryBudget(t) ==
    /\ (worker'[t].pc = "recover" /\ worker[t].pc # "recover")
          => worker[t].pc = "scraping" /\ tasks'[t].status = CHECKING_SESSION
    /\ (worker'[t].pc = "rescraping" /\ worker[t].pc # "rescraping")
          => worker[t].pc = "recover"
    /\ (worker[t].pc = "scraping" /\ worker'[t].pc # "scraping")
          => worker'[t].pc \in {"aggregate", "recover", "except"}
    /\ (worker[t].pc = "recover" /\ worker'[t].pc # "recover")
          => worker'[t].pc \in {"rescraping", "except"}
    /\ (worker[t].pc = "rescraping" /\ worker'[t].pc # "rescraping")
          => worker'[t].pc \in {"aggregate", "except"}
    /\ (worker[t].pc = "except" /\ worker'[t].pc # "except")
          => tasks'[t].status = FAILED

\* The first extraction of task t has just failed with error.
FirstScrapeFailed(t, error) ==
    /\ worker[t].pc = "scraping"
    /\ worker'[t].pc = "except"
    /\ worker'[t].error = error

C17_OneMetadataRow ==
    \A t \in DOMAIN tasks :
        /\ Len(sync_metadata[t]) <= 1
        /\ worker[t].pc = "done"
              => /\ tasks[t].status \in Terminal
                 /\ Len(sync_metadata[t]) = 1
                 /\ sync_metadata[t][1].status = "success" <=> tasks[t].status = COMPLETED
                 /\ sync_metadata[t][1].status = "failed" <=> tasks[t].status = FAILED
                 /\ tasks[t].status = FAILED
                       => sync_metadata[t][1].error = tasks[t].error

\* C17 witness: one run ended Failed in the except block and another ended
\* Completed, each with its one row.
C17_Witness ==
    \E t, u \in DOMAIN tasks :
        /\ worker[t].pc = "done" /\ worker[u].pc = "done"
        /\ sync_metadata[t] = <<[status |-> "failed", error |-> "driver"]>>
        /\ tasks[t].error = "driver"
        /\ sync_metadata[u] = <<[status |-> "success", error |-> "none"]>>
        /\ tasks[u].status = COMPLETED

(***************************************************************************)
(* Properties of get_status (under SpecStatus)                             *)
(***************************************************************************)
Returned == poll.pc = Len(ReadOrder) + 2

\* C18: the dict get_status returns is a point-in-time snapshot: its values
\* are the values the task's attributes held together at one instant of the
\* call, so it never shows a terminal status with completed_at still unset.
C18_PointInTimeSnapshot ==
    Returned
    => /\ poll.snap \in poll.seen
       /\ poll.snap.status \in Terminal => poll.snap.completed_at

(***************************************************************************)
(* Properties of the scraper (under SpecScraper)                           *)
(***************************************************************************)
InLoop ==
    scrape.pc \in {"pre_check", "pre_refresh", "keepalive", "grades", "grades_nav",
                   "post_check", "post_refresh", "exams"}

\* The course callbacks: every call after the opening (0, N, "Starting...").
CourseCalls == IF scrape.calls = <<>> THEN <<>> ELSE Tail(scrape.calls)

\* The callbacks expected once n courses have been dealt with.
CallbackCount == IF InLoop THEN scrape.i ELSE scrape.total

C20_OneRefreshOneRetry ==
    /\ nav.loads <= 2
    /\ nav.refreshes <= 1
    /\ nav.pc = "refresh" => nav.loads = 1 /\ nav.refreshes = 0
    /\ nav.loads = 2 => nav.refreshed = "ok" /\ ~nav.retry_on_session_expire
    /\ nav.refreshed = "failed" => nav.pc = "returned" /\ ~nav.result /\ nav.loads = 1
    /\ (nav.pc = "returned" /\ nav.page # "ok") => ~nav.result

\* C20 witness: the session was invalid after the first load, the refresh
\* succeeded, the session was invalid again after the reload, and the call
\* returned False with one refresh and two loads.
C20_Witness ==
    /\ nav.pc = "returned"
    /\ nav.loads = 2
    /\ nav.refreshes = 1
    /\ nav.page = "login"
    /\ ~nav.result

(***************************************************************************)
(* Properties of inject_cookies (under SpecInject)                         *)
(***************************************************************************)
Redirected(address) == address \in Addresses \ {"learningsuite"}

\* C22: inject_cookies returns True only if the load of the base address and
\* the load of the authenticated-only path both end off the login and
\* multi-factor addresses and the final page shows no session-expired
\* marker; a redirect at either hop, a marker, or any exception raised by a
\* load or by reading the page makes it return False.
C22_RestoreVerifies ==
    inject.pc = "returned"
    => /\ inject.result
             => /\ inject.hop1 = "learningsuite"
                /\ inject.hop2 = "learningsuite"
                /\ inject.source # "expired_marker"
       /\ \/ Redirected(inject.hop1)
          \/ Redirected(inject.hop2)
          \/ inject.source = "expired_marker"
          \/ "raises" \in {inject.first, inject.hop1, inject.hop2, inject.source}
          => ~inject.result

(***************************************************************************)
(* Properties of the status mapping (under SpecMapping)                    *)
(***************************************************************************)
Normal(text) == Strip(Lower(text))

Rule1(button, status) ==
    \/ StartsWith(button, "opens")
    \/ Contains(button, "unavailable")
    \/ Contains(status, "unavailable")

\* C23: _map_status gives every (button text, status text, has_score) one of
\* the four statuses, that of the first rule that matches: (1) the button
\* begins with "opens", or the button or the status text contains
\* "unavailable": unavailable, whatever has_score; (2) has_score: submitted;
\* (3) an ambiguous button: not_started; (4) the button is a key of the
\* table: its value; (5) a key of the table is part of the button: the value
\* of such a key; (6) not_started.
C23_FirstMatchingRule ==
    item.path = "_map_status"
    => LET b == Normal(item.button_text)
           st == Normal(item.status_text)
           r1 == Rule1(b, st)
           r2 == ~r1 /\ item.has_score
           r3 == ~r1 /\ ~r2 /\ b \in AMBIGUOUS_BUTTONS
           r4 == ~r1 /\ ~r2 /\ ~r3 /\ ExactKeys(b) # {}
           r5 == ~r1 /\ ~r2 /\ ~r3 /\ ~r4 /\ PartialKeys(b) # {}
       IN /\ item.status \in {"unavailable", "submitted", "in_progress", "not_started"}
          /\ r1 => item.status = "unavailable"
          /\ r2 => item.status = "submitted"
          /\ r3 => item.status = "not_started"
          /\ r4 => \A k \in ExactKeys(b) : item.status = STATUS_MAPPING[k][2]
          /\ r5 => \E k \in PartialKeys(b) : item.status = STATUS_MAPPING[k][2]
          /\ ~(r1 \/ r2 \/ r3 \/ r4 \/ r5) => item.status = "not_started"

\* C23 witness: an item with a score whose button says it opens later was
\* mapped, to unavailable.
C23_Witness ==
    /\ item.path = "_map_status"
    /\ item.has_score
    /\ StartsWith(Normal(item.button_text), "opens")
    /\ item.status = "unavailable"

ExtractionPaths ==
    {"_convert_js_assignment", "_parse_gradebook_row", "_parse_gradebook_item",
     "_parse_assignment_row"}

\* C24: on every extraction path an item whose button is ambiguous ("view",
\* "view/submit") is submitted when has_score is true and only then; without
\* a score it is not_started.
C24_AmbiguousNeedsScore ==
    (item.path \in ExtractionPaths /\ Normal(item.button_text) \in AMBIGUOUS_BUTTONS)
    => /\ item.status = "submitted" => item.has_score
       /\ ~item.has_score => item.status = "not_started"

(***************************************************************************)
(* Further properties of the reconciliation layer (under SpecDB)           *)
(***************************************************************************)
\* The iteration of this step found no record of the observed title and
\* course and the store accepted its insert.
InsertStep == ReconcileStep /\ lastOp'.class = "new"

\* C25: an update_database iteration whose observed (title, course name)
\* matches no record inserts exactly one record, with is_modified false and
\* with the observed status when that is submitted, in_progress or
\* unavailable and newly_assigned otherwise; an iteration that found a match
\* inserts nothing.
C25_InsertUnmatched ==
    [][/\ InsertStep
          => LET rec == store'[Len(store')]
             IN /\ Len(store') = Len(store) + 1
                /\ SubSeq(store', 1, Len(store)) = store
                /\ \A i \in DOMAIN store :
                      store[i].title # rec.title \/ store[i].course_name # rec.course_name
                /\ ~rec.is_modified
                /\ rec.status = IF lastOp'.ls_status \in {"submitted", "in_progress",
                                                           "unavailable"}
                                THEN lastOp'.ls_status
                                ELSE "newly_assigned"
       /\ (ReconcileStep /\ lastOp'.class \in {"modified", "unchanged"})
          => /\ Len(store') = Len(store)
             /\ lastOp'.id \in DOMAIN store]_vars

\* C25 witness: an observation with status not_started matched nothing and
\* its record is the last of the table, newly_assigned and unmodified.
C25_Witness ==
    /\ lastOp.op = "reconcile"
    /\ lastOp.class = "new"
    /\ lastOp.ls_status = "not_started"
    /\ lastOp.id = Len(store)
    /\ store[lastOp.id].status = "newly_assigned"
    /\ ~store[lastOp.id].is_modified

Counted(c) == c.new + c.modified + c.unchanged + c.errors

\* C26: a store failure in one update_database iteration adds one to errors
\* and nothing else, writes nothing and leaves the call running on the rest
\* of the list; at every point of a call, and so when it returns, new +
\* modified + unchanged + errors is the number of observed records processed.
C26_ErrorCountedRunContinues ==
    [][/\ lastOp'.class = "error"
          => /\ call'.active
             /\ call'.errors = call.errors + 1
             /\ call'.n = call.n + 1
             /\ <<call'.new, call'.modified, call'.unchanged>>
                   = <<call.new, call.modified, call.unchanged>>
             /\ store' = store
       /\ call.active => Counted(call) = call.n
       /\ call'.active => Counted(call') = call'.n]_vars

\* C26 witness: the store failed on one observed record and the call has
\* reconciled a later one into the table.
C26_Witness ==
    /\ call.active
    /\ call.errors = 1
    /\ call.n = 2
    /\ lastOp.op = "reconcile"
    /\ lastOp.class = "new"

(***************************************************************************)
(* Further properties of the scraper (under SpecScraper)                   *)
(***************************************************************************)
CoursesOf(sc) == DOMAIN sc.tries

OnFailedCourses(c) == \E f \in 1..Len(scrape.failed) : scrape.failed[f] = c - 1

\* C27 as stated: a raise of one course's extraction does not end
\* scrape_all_courses: that course's view is called at most twice in the
\* initial pass, and the view of every later course is called too.
C27_LaterCoursesAttempted ==
    /\ \A c \in CoursesOf(scrape) : scrape.tries[c] <= 2
    /\ \A e \in 1..scrape.i, c \in 1..scrape.i :
          (e < c /\ e \in scrape.errored) => scrape.tries[c] >= 1

\* C27 amended: a raise of one course's extraction does not end
\* scrape_all_courses: that course's view is called at most twice in the
\* initial pass, the second time only after the session was found invalid
\* and a refresh succeeded, and the loop goes through every later course:
\* each one has its view called unless the session is invalid before it and
\* the refresh fails, and then it is reported with " (session error)".
C27_CourseErrorDoesNotAbort ==
    [][/\ \A c \in CoursesOf(scrape') : scrape'.tries[c] <= 2
       /\ \A c \in CoursesOf(scrape) :
             (scrape.tries[c] = 1 /\ scrape'.tries[c] = 2) => scrape.attempt = "retry"
       /\ (scrape.attempt = "first" /\ scrape'.attempt = "retry")
             => /\ scrape.pc = "post_refresh"
                /\ scrape.i + 1 \in scrape.errored
                /\ session_refresh_count' = session_refresh_count + 1
                /\ session_refresh_count' <= MaxSessionRefreshes
       /\ \A c \in 1..scrape'.i :
             \/ scrape'.tries[c] >= 1
             \/ scrape'.calls[c + 1].suffix = " (session error)"
       /\ (scrape'.pc \in {"batch", "batch_course", "batch_nav", "returned"})
             => scrape'.i = scrape'.total]_vars

\* C27 witness: the first course's view raised, the session was refreshed,
\* the view raised again and the course is on failed_courses; the second
\* course's view was called once and returned.
C27_Witness ==
    /\ scrape.i >= 2
    /\ scrape.tries[1] = 2
    /\ 1 \in scrape.errored
    /\ OnFailedCourses(1)
    /\ scrape.tries[2] = 1
    /\ 2 \in scrape.extracted

\* C28: when scrape_all_courses returns, every course whose extraction ended
\* the initial pass with a raise is on failed_courses and, if the batch retry
\* found the session valid or refreshed it, had its view called exactly once
\* more; no course's view is called more than once in the batch.
C28_ErroredCoursesRetriedOnce ==
    scrape.pc = "returned"
    => \A c \in CoursesOf(scrape) :
          /\ scrape.retried[c] <= 1
          /\ c \in scrape.errored
                => /\ OnFailedCourses(c)
                   /\ scrape.b >= 1 => scrape.retried[c] = 1

(***************************************************************************)
(* Properties of one task's scrape (under SpecTask)                        *)
(***************************************************************************)
\* C21: the _refresh_session calls of one task that reach the browser,
\* whatever asks for them and over all its scrape_all_courses calls, are at
\* most MaxSessionRefreshes.
C21_RefreshBudgetPerTask == run.browser_refreshes <= MaxSessionRefreshes

AllCoursesFailed ==
    /\ scrape.total > 0
    /\ \A c \in 1..scrape.total : OnFailedCourses(c) /\ c \notin scrape.extracted

SomeCourseFailed ==
    \E c \in 1..scrape.total : OnFailedCourses(c) /\ c \notin scrape.extracted

\* C29: a task whose scrape_all_courses call returned ends Failed when every
\* discovered course failed its extraction, the batch retry included, and
\* ends Completed when some course failed and another was extracted.
C29_AllFailedEndsFailed ==
    (scrape.pc = "returned" /\ run.pc \in {"completed", "failed"})
    => /\ AllCoursesFailed => run.pc = "failed"
       /\ (SomeCourseFailed /\ scrape.extracted # {}) => run.pc = "completed"

\* C30: when the run ends Completed, courses_scraped is the number of
\* discovered courses whose extraction succeeded, whatever they yielded and
\* whatever their names.
C30_CoursesScrapedCountsSuccesses ==
    run.pc = "completed" => run.courses_scraped = Cardinality(scrape.extracted)

(***************************************************************************)
(* The Canvas phase, the cleanup and the stored authentication             *)
(***************************************************************************)
\* C36: a Canvas fetch or reconcile error is absorbed when Learning Suite was
\* authenticated at the start of the run (the worker goes on to UPDATING_DB
\* and the next status of the task is never FAILED) and, in a Canvas-only
\* run, takes the worker to the except block, which ends the task FAILED
\* with that error.
C36_CanvasErrorAbsorbedWithLs ==
    [][\A t \in DOMAIN tasks :
        /\ (At(t, "canvas_fetch") /\ worker'[t].canvas_error) =>
              IF worker[t].ls_authenticated
              THEN worker'[t].pc = "finish"
              ELSE worker'[t].pc = "except" /\ worker'[t].error = "canvas"
        /\ (worker[t].canvas_error /\ tasks'[t].status # tasks[t].status) =>
              IF worker[t].ls_authenticated
              THEN tasks'[t].status \in {UPDATING_DB, COMPLETED}
              ELSE tasks'[t].status = FAILED /\ tasks'[t].error = "canvas"]_vars

C36_Witness ==
    \E t \in DOMAIN tasks :
        /\ worker[t].canvas_error
        /\ worker[t].ls_authenticated
        /\ tasks[t].status = COMPLETED


\* C37: the cleanup of a worker leaves the current-task pointer as it is when
\* the pointer names another task, and the pointer is cleared only by the
\* cleanup of the worker whose task it names.
C37_CleanupClearsOwnPointerOnly ==
    [][/\ \A t \in DOMAIN tasks :
            (At(t, "finally") /\ worker'[t].pc = "done" /\ current_task_id # t) =>
                current_task_id' = current_task_id
       /\ (current_task_id # 0 /\ current_task_id' = 0) =>
            (At(current_task_id, "finally") /\ worker'[current_task_id].pc = "done")]_vars

C37_Witness ==
    \E t \in DOMAIN tasks :
        /\ worker[t].pc = "done"
        /\ worker[t].kept_pointer
        /\ current_task_id \in DOMAIN tasks \ {t}
        /\ tasks[current_task_id].status \notin Terminal


\* The workers that are between the first and the last statement of _run_sync.
Executing == {t \in DOMAIN tasks : worker[t].pc \notin {"unlaunched", "done"}}

\* C38: at any time at most one worker is executing steps of _run_sync.
C38_OneWorkerExecuting == Cardinality(Executing) <= 1


\* C40: a step of a run whose snapshot has been superseded by a later login
\* leaves the stored session data and is_authenticated as that login set them.
C40_ClearsOnlyOwnSnapshot ==
    [][\A t \in DOMAIN tasks :
        (/\ worker[t].superseded
         /\ worker'[t].pc # worker[t].pc
         /\ auth.session /\ auth.is_authenticated) =>
            (auth'.session /\ auth'.is_authenticated)]_vars


(***************************************************************************)
(* The parsing paths and the status mapping (under SpecMapping)            *)
(***************************************************************************)
\* C33: on every parsing path the status of the observed record is
\* _map_status applied to the item's button text, status text and score
\* flag, so two paths give the same status to the same input.
C33_EveryPathMapsStatus ==
    item.path \in ExtractionPaths =>
        item.status = MapStatus(item.button_text, item.status_text, item.has_score)


(***************************************************************************)
(* The identity key of the store (under SpecDB)                            *)
(***************************************************************************)
\* C39: the store, empty at the start, holds at most one record per
\* (title, course name) after any sequence of update_database calls and
\* user edits, also when one list observes the same key more than once.
C39_OneRecordPerKey ==
    \A i, j \in DOMAIN store :
        (store[i].title = store[j].title /\ store[i].course_name = store[j].course_name)
            => i = j

\* The running call has observed the same key twice: its first record was
\* inserted and its second one matched that row.
C39_Witness ==
    /\ call.active
    /\ call.n = 2
    /\ call.new = 1
    /\ call.modified + call.unchanged = 1
    /\ Len(store) = 1


(***************************************************************************)
(* Properties of one Learning Suite run (under SpecRun)                    *)
(***************************************************************************)
\* The counters of the task that get_status returns.
PollerCounters ==
    <<job.assignments_added, job.assignments_updated, job.courses_scraped,
      job.total_courses, job.current_course>>

\* C31: a step of the run in which an error is absorbed (a course's
\* extraction fails, a record's reconciliation raises) changes one of the
\* counters get_status returns.
C31_AbsorbedErrorCounted ==
    [][job'.absorbed > job.absorbed => PollerCounters' # PollerCounters]_vars

\* The store holds a record of course c.
Persisted(c) == \E r \in DOMAIN store : store[r].course_name = CourseNames[c]

\* C32: the records a course's extraction yielded are in the store from the
\* end of that course's save on, so before the extraction of the next course
\* begins and in every later state of the run, whatever fails afterwards
\* (a save that met a store error wrote nothing).
C32_SavedBeforeNextCourse ==
    \A c \in job.observed \ job.db_failed :
        (job.pc = "save" /\ c = job.i + 1) \/ Persisted(c)

\* The run has failed after the records of an earlier course were observed,
\* and they are in the store.
C32_Witness ==
    /\ job.pc = "failed"
    /\ job.i >= 1
    /\ job.observed \ job.db_failed # {}
    /\ \A c \in job.observed \ job.db_failed : Persisted(c)

\* C34: the current_course a poller reads never decreases during a task.
C34_ProgressNeverGoesBack ==
    [][job'.current_course >= job.current_course]_vars

\* C35: when the task is Completed, assignments_added is the number of
\* records the run inserted and assignments_updated the number it classified
\* modified, over all its extraction attempts, and the metadata summary
\* carries the same numbers.
C35_CountersCoverWholeRun ==
    job.pc = "completed" =>
        /\ job.assignments_added = job.inserted
        /\ job.assignments_updated = job.classified_modified
        /\ job.result.assignments_added = job.assignments_added
        /\ job.result.assignments_updated = job.assignments_updated


====
